---------------------------- MODULE Spec2Model ----------------------------
(***************************************************************************)
(* Tile accelerator renderer core (src/src/guest/pvr/tr.c).                *)
(*                                                                         *)
(* tr_convert_context walks a TA parameter stream and fills a render       *)
(* context (surfaces, vertices, per-list surface arrays, indices);         *)
(* tr_render_context_until streams the finished context to the backend.    *)
(*                                                                         *)
(* Conventions of the model:                                               *)
(*  - the C arrays rc->surfs, rc->verts, rc->indices and list->surfs are   *)
(*    sequences materialised up to the highest slot written so far; slot i *)
(*    of the C array is element i+1 of the sequence (At / Store);          *)
(*  - a vertex is reduced to xyz[2], the only vertex field the code        *)
(*    branches on (floats are small integers; the sprite plane fit is      *)
(*    exact integer arithmetic on the chosen inputs);                      *)
(*  - a machine record m = [tr, rc, cache, r, fatal, ...] threads the state*)
(*    through the helper functions exactly as the C code threads the       *)
(*    pointers tr and rc; m.fatal is set by a failed CHECK / LOG_FATAL and *)
(*    every later statement is skipped (the process has aborted).          *)
(***************************************************************************)
EXTENDS Integers, Sequences, FiniteSets, TLC

VARIABLES
  pc,        \* position in tr_convert_context / tr_render_context_until
  ctx,       \* struct ta_context fields read by the conversion (input)
  tr,        \* struct tr: last_vertex, list_type, vert_type
  rc,        \* struct tr_context: surfs, verts, indices, lists, params, counters
  cache,     \* the texture cache entry returned by find_texture
  r,         \* render backend: live textures, call log
  mem,       \* locals and statics: data, end_surf, stopped, sort_minz
  hist       \* history of the run, never read by the program

vars == <<pc, ctx, tr, rc, cache, r, mem, hist>>

-----------------------------------------------------------------------------
(* Bounds of the model. The capacities stand for ARRAY_SIZE(rc->surfs),    *)
(* ARRAY_SIZE(rc->verts) and ARRAY_SIZE(rc->indices), scaled down.         *)

SurfCap == 6
VertCap == 13
IndexCap == 19
MaxParams == 4
MaxQuadParams == 5
MaxStateParams == 2
MaxTextureParams == 4
MaxSceneParams == 5

-----------------------------------------------------------------------------
(* Enumerations of guest/pvr/ta.h, in the order the spec lists them.       *)

TA_LIST_OPAQUE == 0
TA_LIST_OPAQUE_MODVOL == 1
TA_LIST_TRANSLUCENT == 2
TA_LIST_TRANSLUCENT_MODVOL == 3
TA_LIST_PUNCH_THROUGH == 4
TA_NUM_LISTS == 5
TA_NUM_VERTS == 18

Lists == 0 .. (TA_NUM_LISTS - 1)

-----------------------------------------------------------------------------
(* C arrays as lazily materialised sequences.                              *)

At(arr, i) == arr[i + 1]

Store(arr, i, x) ==
  IF i < Len(arr) THEN [arr EXCEPT ![i + 1] = x]
  ELSE arr \o [k \in 1 .. (i - Len(arr)) |-> "stale"] \o <<x>>

Min(a, b) == IF b < a THEN b ELSE a

Fatal(m) == [m EXCEPT !.fatal = TRUE]

-----------------------------------------------------------------------------
(* Translation tables, tr.c:75-110.                                        *)

translate_depth_func(depth_func) ==
  At(<<"DEPTH_NEVER", "DEPTH_GREATER", "DEPTH_EQUAL", "DEPTH_GEQUAL",
       "DEPTH_LESS", "DEPTH_NEQUAL", "DEPTH_LEQUAL", "DEPTH_ALWAYS">>,
     depth_func)

translate_cull(cull_mode) ==
  At(<<"CULL_NONE", "CULL_NONE", "CULL_BACK", "CULL_FRONT">>, cull_mode)

translate_src_blend_func(blend_func) ==
  At(<<"BLEND_ZERO", "BLEND_ONE", "BLEND_DST_COLOR",
       "BLEND_ONE_MINUS_DST_COLOR", "BLEND_SRC_ALPHA",
       "BLEND_ONE_MINUS_SRC_ALPHA", "BLEND_DST_ALPHA",
       "BLEND_ONE_MINUS_DST_ALPHA">>, blend_func)

translate_dst_blend_func(blend_func) ==
  At(<<"BLEND_ZERO", "BLEND_ONE", "BLEND_SRC_COLOR",
       "BLEND_ONE_MINUS_SRC_COLOR", "BLEND_SRC_ALPHA",
       "BLEND_ONE_MINUS_SRC_ALPHA", "BLEND_DST_ALPHA",
       "BLEND_ONE_MINUS_DST_ALPHA">>, blend_func)

translate_shade_mode(shade_mode) ==
  At(<<"SHADE_DECAL", "SHADE_MODULATE", "SHADE_DECAL_ALPHA",
       "SHADE_MODULATE_ALPHA">>, shade_mode)

-----------------------------------------------------------------------------
(* Surfaces.                                                               *)

\* memset(surf, 0, sizeof(*surf)): every enum's zero value
ZeroParams ==
  [texture |-> 0, depth_write |-> FALSE, depth_func |-> "DEPTH_NONE",
   cull |-> "CULL_NONE", src_blend |-> "BLEND_NONE", dst_blend |-> "BLEND_NONE",
   shade |-> "SHADE_DECAL", ignore_alpha |-> FALSE,
   ignore_texture_alpha |-> FALSE, offset_color |-> FALSE,
   alpha_test |-> FALSE, alpha_ref |-> 0]

ZeroSurf ==
  [params |-> ZeroParams, first_vert |-> 0, num_verts |-> 0, strip_offset |-> 0]

NullVertex == [null |-> TRUE, end_of_strip |-> FALSE]

\* a conversion that replaces a dirty texture without destroying it
C14_ConvertWithoutDestroy(m) ==
  IF m.cache.handle # 0 /\ ~m.cache.dirty THEN m
  ELSE
    LET handle == m.r.created + 1
        r2 == [m.r EXCEPT !.textures = @ \cup {handle}, !.created = handle]
    IN [m EXCEPT !.r = r2, !.cache = [handle |-> handle, dirty |-> FALSE]]

\* tr.c:112-169. One cache entry stands for the entry find_texture returns.
tr_convert_texture(m) ==
  IF m.cache.handle # 0 /\ ~m.cache.dirty THEN m
  ELSE
    LET destroyed == m.cache.handle # 0 /\ m.cache.dirty
        r1 == IF destroyed
              THEN [m.r EXCEPT !.textures = @ \ {m.cache.handle},
                               !.destroyed = @ + 1]
              ELSE m.r
        handle == r1.created + 1
        r2 == [r1 EXCEPT !.textures = @ \cup {handle}, !.created = handle]
    IN [m EXCEPT !.r = r2, !.cache = [handle |-> handle, dirty |-> FALSE]]

\* a reserved surface that starts at vertex 0
C4_ReserveSurfAtZero(m, copy_from_prev) ==
  LET surf_index == m.rc.num_surfs IN
  IF m.fatal THEN m
  ELSE IF ~(surf_index < SurfCap) THEN Fatal(m)
  ELSE IF copy_from_prev /\ m.rc.num_surfs = 0 THEN Fatal(m)
  ELSE
    LET from == IF copy_from_prev THEN At(m.rc.surfs, m.rc.num_surfs - 1)
                ELSE ZeroSurf
        surf == [from EXCEPT !.first_vert = 0, !.num_verts = 0]
    IN [m EXCEPT !.rc.surfs = Store(@, surf_index, surf)]

\* tr.c:171-189
tr_reserve_surf(m, copy_from_prev) ==
  LET surf_index == m.rc.num_surfs IN
  IF m.fatal THEN m
  ELSE IF ~(surf_index < SurfCap) THEN Fatal(m)
  ELSE IF copy_from_prev /\ m.rc.num_surfs = 0 THEN Fatal(m)
  ELSE
    LET from == IF copy_from_prev THEN At(m.rc.surfs, m.rc.num_surfs - 1)
                ELSE ZeroSurf
        surf == [from EXCEPT !.first_vert = m.rc.num_verts, !.num_verts = 0]
    IN [m EXCEPT !.rc.surfs = Store(@, surf_index, surf)]

\* tr.c:191-203; z is the xyz[2] the caller writes into the reserved vertex
tr_reserve_vert(m, z) ==
  IF m.fatal THEN m
  ELSE
    LET curr_surf == At(m.rc.surfs, m.rc.num_surfs)
        vert_index == m.rc.num_verts + curr_surf.num_verts
    IN IF ~(vert_index < VertCap) THEN Fatal(m)
       ELSE [m EXCEPT !.rc.verts = Store(@, vert_index, z),
                      !.rc.surfs = Store(@, m.rc.num_surfs,
                        [curr_surf EXCEPT !.num_verts = @ + 1])]


RECURSIVE tr_commit_tris(_, _, _)
\* tr.c:218-238, the per-triangle loop of tr_commit_surf from iteration i on
tr_commit_tris(m, i, num_verts) ==
  IF m.fatal \/ ~(i < num_verts - 2) THEN m
  ELSE
    LET m1 == IF i = 0 THEN m ELSE tr_reserve_surf(m, TRUE) IN
    IF m1.fatal THEN m1
    ELSE
      LET list == m1.rc.lists[m1.tr.list_type]
          surf == [At(m1.rc.surfs, m1.rc.num_surfs) EXCEPT
                     !.strip_offset = i,
                     !.first_vert = m1.rc.num_verts,
                     !.num_verts = 3]
          m2 == [m1 EXCEPT
                   !.rc.surfs = Store(@, m1.rc.num_surfs, surf),
                   !.rc.lists[m1.tr.list_type].surfs =
                       Store(@, list.num_surfs, m1.rc.num_surfs),
                   !.rc.lists[m1.tr.list_type].num_surfs = @ + 1,
                   !.rc.num_verts = @ + 1,
                   !.rc.num_surfs = @ + 1]
      IN tr_commit_tris(m2, i + 1, num_verts)

\* a commit that splits strips of the TRANSLUCENT list only
C15_CommitSplitTranslucentOnly(m) ==
  IF m.fatal THEN m
  ELSE
    LET list == m.rc.lists[m.tr.list_type]
        new_surf == At(m.rc.surfs, m.rc.num_surfs)
        m0 == [m EXCEPT !.rc.lists[m.tr.list_type].num_orig_surfs = @ + 1,
                        !.commits = Append(@,
                          [list |-> m.tr.list_type, surf |-> m.rc.num_surfs,
                           base |-> m.rc.num_verts, len |-> new_surf.num_verts,
                           at |-> list.num_surfs, params |-> new_surf.params])]
    IN IF m.tr.list_type = TA_LIST_TRANSLUCENT
       THEN LET m1 == tr_commit_tris(m0, 0, new_surf.num_verts)
            IN IF m1.fatal THEN m1
               ELSE [m1 EXCEPT !.rc.num_verts = @ + 2]
       ELSE [m0 EXCEPT
               !.rc.lists[m.tr.list_type].surfs =
                   Store(@, list.num_surfs, m.rc.num_surfs),
               !.rc.lists[m.tr.list_type].num_surfs = @ + 1,
               !.rc.num_verts = @ + new_surf.num_verts,
               !.rc.num_surfs = @ + 1]

\* tr.c:205-252
tr_commit_surf(m) ==
  IF m.fatal THEN m
  ELSE
    LET list == m.rc.lists[m.tr.list_type]
        new_surf == At(m.rc.surfs, m.rc.num_surfs)
        \* m.commits is history: which strip was committed where
        m0 == [m EXCEPT !.rc.lists[m.tr.list_type].num_orig_surfs = @ + 1,
                        !.commits = Append(@,
                          [list |-> m.tr.list_type, surf |-> m.rc.num_surfs,
                           base |-> m.rc.num_verts, len |-> new_surf.num_verts,
                           at |-> list.num_surfs, params |-> new_surf.params])]
    IN IF m.tr.list_type = TA_LIST_TRANSLUCENT \/
          m.tr.list_type = TA_LIST_PUNCH_THROUGH
       THEN LET m1 == tr_commit_tris(m0, 0, new_surf.num_verts)
            IN IF m1.fatal THEN m1
               ELSE [m1 EXCEPT !.rc.num_verts = @ + 2]
       ELSE [m0 EXCEPT
               !.rc.lists[m.tr.list_type].surfs =
                   Store(@, list.num_surfs, m.rc.num_surfs),
               !.rc.lists[m.tr.list_type].num_surfs = @ + 1,
               !.rc.num_verts = @ + new_surf.num_verts,
               !.rc.num_surfs = @ + 1]

\* the params a statement sequence writes into the staged surface rc->surfs[num_surfs]
SetStagedParams(m, params) ==
  [m EXCEPT !.rc.surfs = Store(@, m.rc.num_surfs,
              [At(m.rc.surfs, m.rc.num_surfs) EXCEPT !.params = params])]

StagedSurf(m) == At(m.rc.surfs, m.rc.num_surfs)

\* tr_parse_bg without the fourth, computed vertex
C18_ParseBgThreeVerts(m, c) ==
  LET m1 == tr_reserve_surf([m EXCEPT !.tr.list_type = TA_LIST_OPAQUE], FALSE)
      m2 == IF c.bg_isp.texture THEN tr_convert_texture(m1) ELSE m1
      params == [StagedSurf(m2).params EXCEPT
                   !.texture = IF c.bg_isp.texture THEN m2.cache.handle ELSE 0,
                   !.depth_write = ~c.bg_isp.z_write_disable,
                   !.depth_func =
                       translate_depth_func(c.bg_isp.depth_compare_mode),
                   !.cull = translate_cull(c.bg_isp.culling_mode),
                   !.src_blend = "BLEND_NONE",
                   !.dst_blend = "BLEND_NONE"]
  IN IF m1.fatal THEN m1
     ELSE
       LET m3 == SetStagedParams(m2, params)
           m4 == tr_reserve_vert(tr_reserve_vert(
                   tr_reserve_vert(m3, c.bg_z[1]), c.bg_z[2]), c.bg_z[3])
           m5 == tr_commit_surf(m4)
       IN IF m5.fatal THEN m5
          ELSE [m5 EXCEPT !.tr.list_type = TA_NUM_LISTS]

\* tr.c:347-403
tr_parse_bg(m, c) ==
  LET m1 == tr_reserve_surf([m EXCEPT !.tr.list_type = TA_LIST_OPAQUE], FALSE)
      m2 == IF c.bg_isp.texture THEN tr_convert_texture(m1) ELSE m1
      params == [StagedSurf(m2).params EXCEPT
                   !.texture = IF c.bg_isp.texture THEN m2.cache.handle ELSE 0,
                   !.depth_write = ~c.bg_isp.z_write_disable,
                   !.depth_func =
                       translate_depth_func(c.bg_isp.depth_compare_mode),
                   !.cull = translate_cull(c.bg_isp.culling_mode),
                   !.src_blend = "BLEND_NONE",
                   !.dst_blend = "BLEND_NONE"]
      va == c.bg_z[1]
      vb == c.bg_z[2]
      vc == c.bg_z[3]
      \* vd = vb + (vb - va) + (vc - va)
      vd == (vb + (vb - va)) + (vc - va)
  IN IF m1.fatal THEN m1
     ELSE
       LET m3 == SetStagedParams(m2, params)
           m4 == tr_reserve_vert(tr_reserve_vert(tr_reserve_vert(
                   tr_reserve_vert(m3, va), vb), vc), vd)
           m5 == tr_commit_surf(m4)
       IN IF m5.fatal THEN m5
          ELSE [m5 EXCEPT !.tr.list_type = TA_NUM_LISTS]

\* ta_poly_type / ta_vert_type (guest/pvr/ta.h): table lookups on the pcw; the
\* parameter record carries the looked-up values
ta_poly_type(param) == param.poly_type

ta_vert_type(param) == param.vert_type

\* overrides that treat TRANSLUCENT_MODVOL as an opaque list
C9_OverrideOnlyTranslucent(params, list_type, autosort) ==
  IF list_type # TA_LIST_TRANSLUCENT
  THEN [params EXCEPT !.src_blend = "BLEND_NONE", !.dst_blend = "BLEND_NONE"]
  ELSE IF autosort
  THEN [params EXCEPT !.depth_func = "DEPTH_LEQUAL"]
  ELSE params

\* tr.c:469-480, the list-type overrides applied to the translated params
OverrideParams(params, list_type, autosort) ==
  IF list_type # TA_LIST_TRANSLUCENT /\ list_type # TA_LIST_TRANSLUCENT_MODVOL
  THEN [params EXCEPT !.src_blend = "BLEND_NONE", !.dst_blend = "BLEND_NONE"]
  ELSE IF (list_type = TA_LIST_TRANSLUCENT \/
           list_type = TA_LIST_TRANSLUCENT_MODVOL) /\ autosort
  THEN [params EXCEPT !.depth_func = "DEPTH_LEQUAL"]
  ELSE IF list_type = TA_LIST_PUNCH_THROUGH
  THEN [params EXCEPT !.depth_func = "DEPTH_GEQUAL"]
  ELSE params

\* tr.c:452-467, the table translation of the polygon parameter
TranslateParams(param, list_type, alpha_ref) ==
  [ZeroParams EXCEPT
     !.depth_write = ~param.isp.z_write_disable,
     !.depth_func = translate_depth_func(param.isp.depth_compare_mode),
     !.cull = translate_cull(param.isp.culling_mode),
     !.src_blend = translate_src_blend_func(param.tsp.src_alpha_instr),
     !.dst_blend = translate_dst_blend_func(param.tsp.dst_alpha_instr),
     !.shade = translate_shade_mode(param.tsp.texture_shading_instr),
     !.ignore_alpha = ~param.tsp.use_alpha,
     !.ignore_texture_alpha = param.tsp.ignore_tex_alpha,
     !.offset_color = param.pcw.offset,
     !.alpha_test = (list_type = TA_LIST_PUNCH_THROUGH),
     !.alpha_ref = alpha_ref]

\* a polygon parameter that first commits the strip left without end-of-strip
C22_PolyParamFlushingStrip(m, c, param) ==
  LET mf == IF ~m.tr.last_vertex.null /\ ~m.tr.last_vertex.end_of_strip
            THEN tr_commit_surf(m) ELSE m
      m0 == [mf EXCEPT !.tr.last_vertex = NullVertex,
                       !.tr.vert_type = ta_vert_type(param)]
      poly_type == ta_poly_type(param)
  IN IF poly_type = 6 THEN m0
     ELSE IF poly_type \notin {0, 1, 2, 5} THEN Fatal(m0)
     ELSE
       LET m1 == tr_reserve_surf(m0, FALSE) IN
       IF m1.fatal THEN m1
       ELSE
         LET params == OverrideParams(
                         TranslateParams(param, m1.tr.list_type, c.alpha_ref),
                         m1.tr.list_type, c.autosort)
             m2 == IF param.pcw.texture THEN tr_convert_texture(m1) ELSE m1
         IN SetStagedParams(m2,
              [params EXCEPT !.texture =
                 IF param.pcw.texture THEN m2.cache.handle ELSE 0])

\* tr.c:407-486
tr_parse_poly_param(m, c, param) ==
  LET m0 == [m EXCEPT !.tr.last_vertex = NullVertex,
                      !.tr.vert_type = ta_vert_type(param)]
      poly_type == ta_poly_type(param)
  IN IF poly_type = 6 THEN m0
     ELSE IF poly_type \notin {0, 1, 2, 5} THEN Fatal(m0)
     ELSE
       LET m1 == tr_reserve_surf(m0, FALSE) IN
       IF m1.fatal THEN m1
       ELSE
         LET params == OverrideParams(
                         TranslateParams(param, m1.tr.list_type, c.alpha_ref),
                         m1.tr.list_type, c.autosort)
             m2 == IF param.pcw.texture THEN tr_convert_texture(m1) ELSE m1
         IN SetStagedParams(m2,
              [params EXCEPT !.texture =
                 IF param.pcw.texture THEN m2.cache.handle ELSE 0])

\* vec3_sub / vec3_cross / vec3_dot of core/math.h on integer triples
vec3_sub(a, b) == <<a[1] - b[1], a[2] - b[2], a[3] - b[3]>>

vec3_cross(a, b) ==
  <<a[2] * b[3] - a[3] * b[2], a[3] * b[1] - a[1] * b[3],
    a[1] * b[2] - a[2] * b[1]>>

vec3_dot(a, b) == a[1] * b[1] + a[2] * b[2] + a[3] * b[3]

\* tr.c:617-629: len == 0.0f || n[2] == 0.0f, on the un-normalised normal
SpriteDegenerate(xyz) ==
  LET n == vec3_cross(vec3_sub(xyz[1], xyz[2]), vec3_sub(xyz[3], xyz[2]))
  IN n = <<0, 0, 0>> \/ n[3] = 0

\* tr.c:641: vd->xyz[2] = (d - n[0] * vd->xyz[0] - n[1] * vd->xyz[1]) / n[2]
SpriteMissingZ(xyz) ==
  LET n == vec3_cross(vec3_sub(xyz[1], xyz[2]), vec3_sub(xyz[3], xyz[2]))
      d == vec3_dot(n, xyz[2])
  IN (d - n[1] * xyz[4][1] - n[2] * xyz[4][2]) \div n[3]

\* a vertex handler that commits a sprite whatever its plane is
C17_VertParamCommittingDegenerate(m, c, param) ==
  IF m.tr.vert_type = 17 THEN m
  ELSE
    LET m0 == IF ~m.tr.last_vertex.null /\ m.tr.last_vertex.end_of_strip
              THEN tr_reserve_surf(m, TRUE) ELSE m
        m1 == [m0 EXCEPT !.tr.last_vertex =
                 [null |-> FALSE, end_of_strip |-> param.pcw.end_of_strip]]
        degenerate == m.tr.vert_type \in {15, 16} /\ SpriteDegenerate(param.xyz)
        m2 == IF m1.fatal THEN m1
              ELSE IF m1.tr.vert_type \in 0 .. 8
              THEN tr_reserve_vert(m1, param.xyz[1][3])
              ELSE IF m1.tr.vert_type \in {15, 16}
              THEN IF ~param.pcw.end_of_strip THEN Fatal(m1)
                   ELSE
                     tr_reserve_vert(tr_reserve_vert(tr_reserve_vert(
                       tr_reserve_vert(m1, param.xyz[1][3]), param.xyz[2][3]),
                       IF degenerate THEN 0 ELSE SpriteMissingZ(param.xyz)),
                       param.xyz[3][3])
              ELSE Fatal(m1)
    IN IF m2.fatal THEN m2
       ELSE IF param.pcw.end_of_strip THEN tr_commit_surf(m2)
       ELSE m2

\* tr.c:488-665
tr_parse_vert_param(m, c, param) ==
  IF m.tr.vert_type = 17 THEN m
  ELSE
    LET m0 == IF ~m.tr.last_vertex.null /\ m.tr.last_vertex.end_of_strip
              THEN tr_reserve_surf(m, TRUE) ELSE m
        m1 == [m0 EXCEPT !.tr.last_vertex =
                 [null |-> FALSE, end_of_strip |-> param.pcw.end_of_strip]]
        degenerate == m.tr.vert_type \in {15, 16} /\ SpriteDegenerate(param.xyz)
        m2 == IF m1.fatal THEN m1
              ELSE IF m1.tr.vert_type \in 0 .. 8
              THEN tr_reserve_vert(m1, param.xyz[1][3])
              ELSE IF m1.tr.vert_type \in {15, 16}
              THEN IF ~param.pcw.end_of_strip THEN Fatal(m1)
                   ELSE \* va, vb, vd, vc in this order
                     tr_reserve_vert(tr_reserve_vert(tr_reserve_vert(
                       tr_reserve_vert(m1, param.xyz[1][3]), param.xyz[2][3]),
                       IF degenerate THEN 0 ELSE SpriteMissingZ(param.xyz)),
                       param.xyz[3][3])
              ELSE Fatal(m1)
    IN IF m2.fatal \/ degenerate THEN m2
       ELSE IF param.pcw.end_of_strip THEN tr_commit_surf(m2)
       ELSE m2

\* an END_OF_LIST that leaves the vertex type of the closed list in place
C24_EolKeepingVertType(m) ==
  [m EXCEPT !.tr.last_vertex = NullVertex,
            !.tr.list_type = TA_NUM_LISTS]

\* tr.c:667-672
tr_parse_eol(m) ==
  [m EXCEPT !.tr.last_vertex = NullVertex,
            !.tr.list_type = TA_NUM_LISTS,
            !.tr.vert_type = TA_NUM_VERTS]

-----------------------------------------------------------------------------
(* Sort, tr.c:744-772.                                                     *)

\* a comparison that puts the later of two equal surfaces first
C7_CompareStrict(minz, a, b) == minz[a] < minz[b]

\* tr.c:747-751; minz is the static array sort_minz
tr_compare_surf(minz, a, b) == minz[a] <= minz[b]

RECURSIVE msort_merge(_, _, _)
\* core/sort.h: merge of two sorted runs; the left element is taken when
\* cmp(left, right) holds
msort_merge(minz, a, b) ==
  IF a = <<>> THEN b
  ELSE IF b = <<>> THEN a
  ELSE IF tr_compare_surf(minz, Head(a), Head(b))
  THEN <<Head(a)>> \o msort_merge(minz, Tail(a), b)
  ELSE <<Head(b)>> \o msort_merge(minz, a, Tail(b))

RECURSIVE msort_noalloc(_, _)
\* core/sort.h: top-down merge sort with an auxiliary buffer
msort_noalloc(minz, data) ==
  IF Len(data) < 2 THEN data
  ELSE LET mid == Len(data) \div 2
       IN msort_merge(minz,
            msort_noalloc(minz, SubSeq(data, 1, mid)),
            msort_noalloc(minz, SubSeq(data, mid + 1, Len(data))))

\* minz taken over the first two vertices of the triangle only
C19_SurfMinZOfTwo(verts, surf) ==
  Min(At(verts, surf.first_vert), At(verts, surf.first_vert + 1))

\* tr.c:766-767
SurfMinZ(verts, surf) ==
  Min(Min(At(verts, surf.first_vert), At(verts, surf.first_vert + 1)),
      At(verts, surf.first_vert + 2))

\* tr.c:753-772
tr_sort_surfaces(m, list_type) ==
  IF m.fatal THEN m
  ELSE
    LET list == m.rc.lists[list_type]
        entries == SubSeq(list.surfs, 1, list.num_surfs)
        bad == \E i \in 1 .. list.num_surfs :
                 At(m.rc.surfs, entries[i]).num_verts # 3
        minz == [s \in DOMAIN m.sort_minz \cup
                       {entries[i] : i \in 1 .. list.num_surfs} |->
                   IF \E i \in 1 .. list.num_surfs : entries[i] = s
                   THEN SurfMinZ(m.rc.verts, At(m.rc.surfs, s))
                   ELSE m.sort_minz[s]]
    IN IF bad THEN Fatal(m)
       ELSE [m EXCEPT
               !.sort_minz = minz,
               !.rc.lists[list_type].surfs =
                   msort_noalloc(minz, entries) \o
                   SubSeq(list.surfs, list.num_surfs + 1, Len(list.surfs))]

-----------------------------------------------------------------------------
(* Index generation, tr.c:674-742.                                         *)

\* surfaces merge when everything but their texture agrees
C5_CanMergeIgnoringTexture(a, b) ==
  [a.params EXCEPT !.texture = 0] = [b.params EXCEPT !.texture = 0]

\* tr.c:674-677
tr_can_merge_surfs(a, b) == a.params = b.params

\* winding that starts one vertex late
C3_TriIndicesLate(strip_offset, vertex_offset) ==
  IF strip_offset % 2 = 1
  THEN <<vertex_offset + 1, vertex_offset + 2, vertex_offset + 3>>
  ELSE <<vertex_offset + 1, vertex_offset + 3, vertex_offset + 2>>

\* winding with the two orders exchanged
C6_TriIndicesSwapped(strip_offset, vertex_offset) ==
  IF strip_offset % 2 = 1
  THEN <<vertex_offset + 0, vertex_offset + 2, vertex_offset + 1>>
  ELSE <<vertex_offset + 0, vertex_offset + 1, vertex_offset + 2>>

\* tr.c:721-729, the index triple of one triangle
TriIndices(strip_offset, vertex_offset) ==
  IF strip_offset % 2 = 1
  THEN <<vertex_offset + 0, vertex_offset + 1, vertex_offset + 2>>
  ELSE <<vertex_offset + 0, vertex_offset + 2, vertex_offset + 1>>

RECURSIVE EmitSurfIndices(_, _, _)
\* tr.c:716-730, the loop over the triangles of surf from triangle j on
EmitSurfIndices(rc0, surf, j) ==
  IF ~(j < surf.num_verts - 2) THEN rc0
  ELSE
    LET t == TriIndices(surf.strip_offset + j, surf.first_vert + j)
        i0 == rc0.num_indices
    IN EmitSurfIndices(
         [rc0 EXCEPT !.indices = Store(Store(Store(@, i0, t[1]), i0 + 1, t[2]),
                                       i0 + 2, t[3]),
                     !.num_indices = @ + 3],
         surf, j + 1)

\* tr.c:713-714
IndexRoom(rc0, surf) ==
  rc0.num_indices + (surf.num_verts - 2) * 3 < IndexCap

\* the merge loop counting a merged surface without emitting its triangles
RECURSIVE C20_MergeRunDroppingMerged(_, _, _, _, _)
C20_MergeRunDroppingMerged(m, list_type, i, j, num_merged) ==
  LET list == m.rc.lists[list_type] IN
  IF m.fatal \/ ~(j < list.num_surfs)
  THEN [m |-> m, j |-> j, num_merged |-> num_merged]
  ELSE
    LET root == At(m.rc.surfs, At(list.surfs, i))
        surf == At(m.rc.surfs, At(list.surfs, j))
        other == At(list.surfs, j) # At(list.surfs, i)
    IN IF other /\ ~tr_can_merge_surfs(root, surf)
       THEN [m |-> m, j |-> j, num_merged |-> num_merged]
       ELSE
         IF other
         THEN C20_MergeRunDroppingMerged(m, list_type, i, j + 1,
                                         num_merged + 1)
         ELSE IF ~IndexRoom(m.rc, surf)
         THEN [m |-> Fatal(m), j |-> j, num_merged |-> num_merged]
         ELSE C20_MergeRunDroppingMerged(
                [m EXCEPT !.rc = EmitSurfIndices(m.rc, surf, 0)],
                list_type, i, j + 1, num_merged)

RECURSIVE MergeRun(_, _, _, _, _)
\* tr.c:702-731, the inner loop from j on; yields the machine, j and num_merged
MergeRun(m, list_type, i, j, num_merged) ==
  LET list == m.rc.lists[list_type] IN
  IF m.fatal \/ ~(j < list.num_surfs)
  THEN [m |-> m, j |-> j, num_merged |-> num_merged]
  ELSE
    LET root == At(m.rc.surfs, At(list.surfs, i))
        surf == At(m.rc.surfs, At(list.surfs, j))
        other == At(list.surfs, j) # At(list.surfs, i)
    IN IF other /\ ~tr_can_merge_surfs(root, surf)
       THEN [m |-> m, j |-> j, num_merged |-> num_merged]
       ELSE
         LET merged == IF other THEN num_merged + 1 ELSE num_merged IN
         IF ~IndexRoom(m.rc, surf)
         THEN [m |-> Fatal(m), j |-> j, num_merged |-> merged]
         ELSE MergeRun([m EXCEPT !.rc = EmitSurfIndices(m.rc, surf, 0)],
                       list_type, i, j + 1, merged)

\* the run's first surface keeps the running index count as its length
C2_RewriteRootTotal(root, first_index, num_indices) ==
  [root EXCEPT !.first_vert = first_index, !.num_verts = num_indices]

\* tr.c:733-735: the run's first surface now points at its triangle indices
RewriteRoot(root, first_index, num_indices) ==
  [root EXCEPT !.first_vert = first_index,
               !.num_verts = num_indices - first_index]

\* tr.c:738: the slot the run's first surface moves to
CompactSlot(j, num_merged) == j - num_merged - 1

RECURSIVE MergeRuns(_, _, _, _)
\* tr.c:697-741, the outer loop from i on
MergeRuns(m, list_type, i, num_merged) ==
  LET list == m.rc.lists[list_type] IN
  IF m.fatal THEN m
  ELSE IF ~(i < list.num_surfs)
  THEN [m EXCEPT !.rc.lists[list_type].num_surfs = @ - num_merged]
  ELSE
    LET root_index == At(list.surfs, i)
        first_index == m.rc.num_indices
        run == MergeRun(m, list_type, i, i, num_merged)
        m1 == run.m
    IN IF m1.fatal THEN m1
       ELSE
         LET root == RewriteRoot(At(m1.rc.surfs, root_index), first_index,
                                 m1.rc.num_indices)
             m2 == [m1 EXCEPT
                      !.rc.surfs = Store(@, root_index, root),
                      !.rc.lists[list_type].surfs =
                          Store(@, CompactSlot(run.j, run.num_merged),
                                root_index)]
         IN MergeRuns(m2, list_type, run.j, run.num_merged)

\* tr.c:679-742
tr_generate_indices(m, list_type) == MergeRuns(m, list_type, 0, 0)

-----------------------------------------------------------------------------
(* Render, tr.c:796-835.                                                   *)

RECURSIVE DrawFrom(_, _, _, _)
\* tr.c:807-816, the walk of one list from entry k on; yields the call log and
\* the stopped flag
DrawFrom(list, k, end_surf, calls) ==
  IF ~(k < list.num_surfs) THEN [calls |-> calls, stopped |-> FALSE]
  ELSE
    LET surf == At(list.surfs, k)
        drawn == Append(calls, [call |-> "draw", surf |-> surf])
    IN IF surf = end_surf THEN [calls |-> drawn, stopped |-> TRUE]
       ELSE DrawFrom(list, k + 1, end_surf, drawn)

\* a list walk that does not look at the stopped flag
C11_RenderListIgnoringStop(calls, rc0, list_type, end_surf, stopped) ==
  LET res == DrawFrom(rc0.lists[list_type], 0, end_surf, calls)
  IN [res EXCEPT !.stopped = stopped \/ res.stopped]

\* tr.c:796-817
tr_render_list(calls, rc0, list_type, end_surf, stopped) ==
  IF stopped THEN [calls |-> calls, stopped |-> stopped]
  ELSE DrawFrom(rc0.lists[list_type], 0, end_surf, calls)

-----------------------------------------------------------------------------
(* Inputs: the parameters a stream may hold.                               *)

\* the pcw and the instruction words of a global (polygon / sprite) parameter
Poly(list_type, para_type, poly_type, vert_type, texture, isp, tsp) ==
  [pcw |-> [para_type |-> para_type, list_type |-> list_type,
            end_of_strip |-> FALSE, texture |-> texture, offset |-> FALSE],
   poly_type |-> poly_type, vert_type |-> vert_type, isp |-> isp, tsp |-> tsp]

Isp(z_write_disable, depth_compare_mode, culling_mode) ==
  [z_write_disable |-> z_write_disable,
   depth_compare_mode |-> depth_compare_mode, culling_mode |-> culling_mode]

Tsp(src_alpha_instr, dst_alpha_instr) ==
  [src_alpha_instr |-> src_alpha_instr, dst_alpha_instr |-> dst_alpha_instr,
   texture_shading_instr |-> 0, use_alpha |-> TRUE, ignore_tex_alpha |-> FALSE]

\* Polygon parameters as the front-end tables classify them: a modifier-volume
\* list gives poly type 6 / vertex type 17, a sprite gives poly type 5 / vertex
\* type 15 or 16, a two-volume polygon gives the unsupported poly type 3.
PolysOver(isps, tsps) ==
  {Poly(lt, "POLY_OR_VOL", 6, 17, FALSE, isp, tsp) :
     lt \in {TA_LIST_OPAQUE_MODVOL, TA_LIST_TRANSLUCENT_MODVOL},
     isp \in isps, tsp \in tsps}
  \cup
  UNION {{Poly(lt, "POLY_OR_VOL", 0, IF tex THEN 3 ELSE 0, tex, isp, tsp) :
            lt \in {TA_LIST_OPAQUE, TA_LIST_TRANSLUCENT, TA_LIST_PUNCH_THROUGH},
            tex \in BOOLEAN} : isp \in isps, tsp \in tsps}
  \cup
  {Poly(lt, "SPRITE", 5, 15, FALSE, isp, tsp) :
     lt \in {TA_LIST_OPAQUE, TA_LIST_TRANSLUCENT, TA_LIST_PUNCH_THROUGH},
     isp \in isps, tsp \in tsps}
  \cup
  {Poly(TA_LIST_OPAQUE, "POLY_OR_VOL", 3, 9, FALSE, isp, tsp) :
     isp \in isps, tsp \in tsps}

\* isp / tsp words that translate to the background surface's state
GeomPolys == PolysOver({Isp(FALSE, 7, 0)}, {Tsp(4, 5)})

\* plain polygons over every depth compare mode and two blend settings, and
\* the modifier-volume parameters that open the two modifier-volume lists
StatePolys ==
  {p \in PolysOver({Isp(FALSE, dcm, 2) : dcm \in 0 .. 7},
                   {Tsp(1, 0), Tsp(4, 5)}) :
     \/ p.poly_type = 0 /\ ~p.pcw.texture
     \/ p.poly_type = 6 /\ p.isp.depth_compare_mode = 0 /\ p.tsp.src_alpha_instr = 1}

\* A vertex parameter: the pcw and the xyz words, read as one vertex
\* (xyz[1]) or as the sprite quad a, b, c, d (d's z is not supplied).
Vert(list_type, end_of_strip, xyz) ==
  [pcw |-> [para_type |-> "VERTEX", list_type |-> list_type,
            end_of_strip |-> end_of_strip, texture |-> FALSE, offset |-> FALSE],
   xyz |-> xyz]

\* sprite quads a, b, c, d on integer planes, and a degenerate one
QuadFlat == <<<<0, 0, 1>>, <<0, 1, 1>>, <<1, 1, 1>>, <<1, 0, 0>>>>  \* z = 1

QuadUp == <<<<0, 0, 1>>, <<0, 1, 2>>, <<1, 1, 3>>, <<1, 0, 0>>>>    \* z = 1 + x + y

QuadDown == <<<<0, 0, 3>>, <<0, 1, 2>>, <<1, 1, 1>>, <<1, 0, 0>>>>  \* z = 3 - x - y

QuadPoint == <<<<0, 0, 1>>, <<0, 0, 1>>, <<0, 0, 1>>, <<1, 0, 0>>>> \* a = b = c

\* edge-on to the view: the normal is (-1, 0, 0)
QuadEdge == <<<<0, 0, 1>>, <<0, 1, 1>>, <<0, 1, 2>>, <<1, 0, 0>>>>

\* z = 5 - 4x: the strip a, b, d, c has z 5, 5, 1, 1
QuadSteep == <<<<0, 0, 5>>, <<0, 1, 5>>, <<1, 1, 1>>, <<1, 0, 0>>>>

GeomVerts ==
  {Vert(TA_LIST_OPAQUE, eos, q) :
     eos \in BOOLEAN, q \in {QuadFlat, QuadDown, QuadPoint}}

QuadVerts ==
  {Vert(TA_LIST_OPAQUE, TRUE, q) :
     q \in {QuadFlat, QuadUp, QuadDown, QuadPoint}}
  \cup {Vert(TA_LIST_OPAQUE, FALSE, QuadFlat)}

\* sprites in the three drawn lists, one plain polygon, one modifier volume
QuadPolys ==
  {p \in PolysOver({Isp(FALSE, 7, 0)}, {Tsp(4, 5)}) :
     \/ p.poly_type = 5
     \/ p.poly_type = 0 /\ ~p.pcw.texture /\ p.pcw.list_type = TA_LIST_TRANSLUCENT
     \/ p.poly_type = 6 /\ p.pcw.list_type = TA_LIST_OPAQUE_MODVOL}

Control(para_type, list_type) ==
  [pcw |-> [para_type |-> para_type, list_type |-> list_type,
            end_of_strip |-> FALSE, texture |-> FALSE, offset |-> FALSE]]

\* the list types a control parameter's pcw may name
ControlLists == {TA_LIST_TRANSLUCENT}

-----------------------------------------------------------------------------
(* The stream walk of tr_convert_context, tr.c:857-898.                    *)

\* guest/pvr/ta.h: the pcw's list type is adopted only while no list is active
ta_pcw_list_type_valid(pcw, current_list_type) ==
  current_list_type = TA_NUM_LISTS

\* guest/pvr/ta.h: the stride of a parameter, 32 or 64 bytes
ta_param_size(param, vert_type) ==
  IF param.pcw.para_type = "VERTEX"
  THEN (IF vert_type \in {5, 6, 11, 12, 13, 14, 15, 16, 17} THEN 64 ELSE 32)
  ELSE IF param.pcw.para_type \in {"POLY_OR_VOL", "SPRITE"}
  THEN (IF param.poly_type \in {2, 4} THEN 64 ELSE 32)
  ELSE 32

\* history value of a step that began no continuation strip
NoneContinued == [valid |-> FALSE, surf |-> ZeroSurf, num_verts |-> 0]

\* history: the surface tr_parse_vert_param stages when the vertex it is
\* about to read begins a continuation strip (tr.c:497-503)
Continued(m, param) ==
  IF /\ param.pcw.para_type = "VERTEX"
     /\ m.tr.vert_type # 17
     /\ ~m.tr.last_vertex.null
     /\ m.tr.last_vertex.end_of_strip
     /\ ~tr_reserve_surf(m, TRUE).fatal
  THEN [valid |-> TRUE, surf |-> StagedSurf(tr_reserve_surf(m, TRUE)),
        num_verts |-> m.rc.num_verts]
  ELSE NoneContinued

\* history: what the walk needs to know of the parameter it has just read
LastParam(param) ==
  [pcw |-> param.pcw,
   poly_type |-> IF param.pcw.para_type \in {"POLY_OR_VOL", "SPRITE"}
                 THEN param.poly_type ELSE -1,
   degenerate |-> param.pcw.para_type = "VERTEX" /\ SpriteDegenerate(param.xyz)]

\* history value before any parameter was read
NoneLast ==
  [pcw |-> Control("NONE", TA_NUM_LISTS).pcw, poly_type |-> -1,
   degenerate |-> FALSE]

\* history value of a step that opened no surface
NoneOpened ==
  [valid |-> FALSE, list_type |-> TA_NUM_LISTS,
   param |-> Control("END_OF_LIST", TA_LIST_OPAQUE)]

Machine ==
  [tr |-> tr, rc |-> rc, cache |-> cache, r |-> r, fatal |-> FALSE,
   commits |-> hist.commits, emitted |-> hist.emitted,
   sort_minz |-> mem.sort_minz]

\* every parameter's list type is adopted
C12_AdoptAlways(m, pcw) == [m EXCEPT !.tr.list_type = pcw.list_type]

\* tr.c:860-862
AdoptList(m, pcw) ==
  IF ta_pcw_list_type_valid(pcw, m.tr.list_type)
  THEN [m EXCEPT !.tr.list_type = pcw.list_type]
  ELSE m

\* a dispatch that skips OBJ_LIST_SET like a user tile clip
C13_DispatchSkippingObjList(m, param) ==
  CASE param.pcw.para_type = "END_OF_LIST" -> tr_parse_eol(m)
    [] param.pcw.para_type \in {"USER_TILE_CLIP", "OBJ_LIST_SET"} -> m
    [] param.pcw.para_type \in {"POLY_OR_VOL", "SPRITE"} ->
         tr_parse_poly_param(m, ctx, param)
    [] param.pcw.para_type = "VERTEX" -> tr_parse_vert_param(m, ctx, param)

\* tr.c:864-887
Dispatch(m, param) ==
  CASE param.pcw.para_type = "END_OF_LIST" -> tr_parse_eol(m)
    [] param.pcw.para_type = "USER_TILE_CLIP" -> m
    [] param.pcw.para_type = "OBJ_LIST_SET" -> Fatal(m)
    [] param.pcw.para_type \in {"POLY_OR_VOL", "SPRITE"} ->
         tr_parse_poly_param(m, ctx, param)
    [] param.pcw.para_type = "VERTEX" -> tr_parse_vert_param(m, ctx, param)

\* tr.c:889-897
TrackParam(m, param, data) ==
  [m EXCEPT !.rc.params = Append(@,
              [offset |-> data, list_type |-> m.tr.list_type,
               vert_type |-> m.tr.vert_type, last_surf |-> m.rc.num_surfs - 1,
               last_vert |-> m.rc.num_verts - 1]),
            !.rc.num_params = @ + 1]

\* the machine's state becomes the next state; next_mem is mem but for sort_minz
Assign(m, next_pc, next_mem) ==
  /\ tr' = m.tr
  /\ rc' = m.rc
  /\ cache' = m.cache
  /\ r' = m.r
  /\ mem' = [next_mem EXCEPT !.sort_minz = m.sort_minz]
  /\ pc' = IF m.fatal THEN "fatal" ELSE next_pc

\* one iteration of the while loop, tr.c:857-898
Walk(param, max) ==
  /\ pc = "walk"
  /\ rc.num_params < max
  /\ \E m1 \in {AdoptList(Machine, param.pcw)} :
     \E m2 \in {Dispatch(m1, param)} :
     \E m3 \in {IF m2.fatal THEN m2 ELSE TrackParam(m2, param, mem.data)} :
        /\ Assign(m3, "walk",
                  IF m2.fatal THEN mem
                  ELSE [mem EXCEPT
                          !.data = @ + ta_param_size(param, m2.tr.vert_type)])
        \* history: whether this step's handler opened a surface, and from what
        /\ hist' = [hist EXCEPT
                      !.commits = m3.commits,
                      !.opened =
                        IF /\ param.pcw.para_type \in {"POLY_OR_VOL", "SPRITE"}
                           /\ ~m2.fatal
                           /\ param.poly_type # 6
                        THEN [valid |-> TRUE, list_type |-> m2.tr.list_type,
                              param |-> param]
                        ELSE NoneOpened,
                      !.governing =
                        IF /\ param.pcw.para_type \in {"POLY_OR_VOL", "SPRITE"}
                           /\ ~m2.fatal
                           /\ param.poly_type # 6
                        THEN StagedSurf(m2).params
                        ELSE @,
                      !.continued = Continued(m1, param),
                      !.staged =
                        IF /\ param.pcw.para_type \in {"POLY_OR_VOL", "SPRITE"}
                           /\ ~m2.fatal
                           /\ param.poly_type # 6
                        THEN TRUE
                        ELSE IF param.pcw.para_type = "END_OF_LIST"
                        THEN FALSE
                        ELSE @,
                      !.last = LastParam(param)]
  /\ UNCHANGED ctx

-----------------------------------------------------------------------------
(* Actions.                                                                *)

\* tr.c:850-855: tr_reset has run (Init); the background is parsed
ParseBackground ==
  /\ pc = "reset"
  /\ \E m \in {tr_parse_bg(Machine, ctx)} :
        /\ Assign(m, "walk", mem)
        /\ hist' = [hist EXCEPT !.commits = m.commits]
  /\ UNCHANGED ctx

\* tr.c:866-868
EndOfList(max) ==
  /\ pc = "walk"
  /\ \E lt \in ControlLists : Walk(Control("END_OF_LIST", lt), max)

\* tr.c:870-871
UserTileClip(max) ==
  /\ pc = "walk"
  /\ \E lt \in ControlLists : Walk(Control("USER_TILE_CLIP", lt), max)

\* tr.c:873-875
ObjListSet(max) ==
  /\ pc = "walk"
  /\ \E lt \in ControlLists : Walk(Control("OBJ_LIST_SET", lt), max)

\* tr.c:878-881
PolyParam(polys, max) ==
  /\ pc = "walk"
  /\ \E param \in polys : Walk(param, max)

\* tr.c:884-886
VertParam(verts, max) ==
  /\ pc = "walk"
  /\ \E param \in verts : Walk(param, max)

\* tr.c:857: data reaches end
EndOfStream ==
  /\ pc = "walk"
  /\ pc' = "sort"
  /\ hist' = [hist EXCEPT !.presort = rc.lists]
  /\ UNCHANGED <<ctx, tr, rc, cache, r, mem>>

\* the sort run whether or not the context asks for it
C25_SortAlways ==
  /\ pc = "sort"
  /\ \E m \in {tr_sort_surfaces(
                 tr_sort_surfaces(Machine, TA_LIST_TRANSLUCENT),
                 TA_LIST_PUNCH_THROUGH)} :
        /\ Assign(m, "index", mem)
        /\ hist' = [hist EXCEPT !.premerge =
                      [lists |-> m.rc.lists, surfs |-> m.rc.surfs]]
  /\ UNCHANGED ctx

\* tr.c:900-904
SortSurfaces ==
  /\ pc = "sort"
  /\ \E m \in {IF ctx.autosort
               THEN tr_sort_surfaces(
                      tr_sort_surfaces(Machine, TA_LIST_TRANSLUCENT),
                      TA_LIST_PUNCH_THROUGH)
               ELSE Machine} :
        /\ Assign(m, "index", mem)
        /\ hist' = [hist EXCEPT !.premerge =
                      [lists |-> m.rc.lists, surfs |-> m.rc.surfs]]
  /\ UNCHANGED ctx

RECURSIVE GenerateFrom(_, _)
\* tr.c:906-908, the loop over the lists from list i on; m.emitted is history:
\* the number of indices each call of tr_generate_indices added
GenerateFrom(m, i) ==
  IF m.fatal \/ ~(i < TA_NUM_LISTS) THEN m
  ELSE LET m1 == tr_generate_indices(m, i)
       IN GenerateFrom(
            [m1 EXCEPT !.emitted[i] = m1.rc.num_indices - m.rc.num_indices],
            i + 1)

GenerateIndices ==
  /\ pc = "index"
  /\ \E m \in {GenerateFrom(Machine, 0)} :
        /\ Assign(m, "done", mem)
        /\ hist' = [hist EXCEPT !.emitted = m.emitted]
  /\ UNCHANGED ctx

\* translucent surfaces drawn before punch-through ones
C10_TranslucentFirst ==
  <<TA_LIST_OPAQUE, TA_LIST_TRANSLUCENT, TA_LIST_PUNCH_THROUGH>>

\* the punch-through list rendered ahead of the opaque list
C23_PunchThroughFirst ==
  <<TA_LIST_PUNCH_THROUGH, TA_LIST_OPAQUE, TA_LIST_TRANSLUCENT>>

\* tr.c:826-828
RenderOrder == <<TA_LIST_OPAQUE, TA_LIST_PUNCH_THROUGH, TA_LIST_TRANSLUCENT>>

RECURSIVE RenderLists(_, _, _, _)
\* tr.c:826-828, the three tr_render_list calls from the k-th on
RenderLists(res, rc0, end_surf, k) ==
  IF k > Len(RenderOrder) THEN res
  ELSE RenderLists(
         tr_render_list(res.calls, rc0, RenderOrder[k], end_surf, res.stopped),
         rc0, end_surf, k + 1)

\* tr.c:819-831; the backend calls are logged in r.calls
tr_render_context_until(rc0, end_surf) ==
  LET begun == [calls |-> <<[call |-> "begin", surf |-> -1]>>,
                stopped |-> FALSE]
      res == RenderLists(begun, rc0, end_surf, 1)
  IN [res EXCEPT !.calls = Append(@, [call |-> "end", surf |-> -1])]

\* a caller renders the finished context up to any surface (-1: all of it)
RenderContextUntil ==
  /\ pc = "done"
  /\ \E end_surf \in -1 .. (rc.num_surfs - 1) :
       LET res == tr_render_context_until(rc, end_surf)
       IN /\ r' = [r EXCEPT !.calls = res.calls]
          /\ mem' = [mem EXCEPT !.end_surf = end_surf, !.stopped = res.stopped]
  /\ pc' = "rendered"
  /\ UNCHANGED <<ctx, tr, rc, cache, hist>>

-----------------------------------------------------------------------------
(* Specifications.                                                         *)

\* tr.c:774-794 (tr_reset) has run on a fresh render context
InitWith(ctxs) ==
  /\ pc = "reset"
  /\ ctx \in ctxs
  /\ tr = [last_vertex |-> NullVertex, list_type |-> TA_NUM_LISTS,
           vert_type |-> TA_NUM_VERTS]
  /\ rc = [surfs |-> <<>>, num_surfs |-> 0, verts |-> <<>>, num_verts |-> 0,
           indices |-> <<>>, num_indices |-> 0,
           lists |-> [l \in Lists |->
                        [surfs |-> <<>>, num_surfs |-> 0, num_orig_surfs |-> 0]],
           params |-> <<>>, num_params |-> 0]
  /\ cache = [handle |-> 0, dirty |-> FALSE]
  /\ r = [textures |-> {}, created |-> 0, destroyed |-> 0, calls |-> <<>>]
  /\ mem = [data |-> 0, end_surf |-> -1, stopped |-> FALSE, sort_minz |-> <<>>]
  /\ hist = [commits |-> <<>>, presort |-> <<>>, premerge |-> <<>>,
             emitted |-> [l \in Lists |-> 0],
             opened |-> NoneOpened, governing |-> ZeroParams,
             continued |-> NoneContinued, staged |-> FALSE,
             last |-> NoneLast]

Ctx(autosort, alpha_ref, bg_isp) ==
  [autosort |-> autosort, alpha_ref |-> alpha_ref, bg_isp |-> bg_isp,
   bg_z |-> <<1, 1, 1>>]

BgIsp(texture, depth_compare_mode) ==
  [texture |-> texture, z_write_disable |-> FALSE,
   depth_compare_mode |-> depth_compare_mode, culling_mode |-> 0]

Init == InitWith({Ctx(a, 0, BgIsp(FALSE, 7)) : a \in BOOLEAN})

After ==
  \/ EndOfStream
  \/ SortSurfaces
  \/ GenerateIndices
  \/ RenderContextUntil

Next ==
  \/ ParseBackground
  \/ EndOfList(MaxParams)
  \/ UserTileClip(MaxParams)
  \/ ObjListSet(MaxParams)
  \/ PolyParam(GeomPolys, MaxParams)
  \/ VertParam(GeomVerts, MaxParams)
  \/ After

Spec == Init /\ [][Next]_vars

\* the same program on short streams over the full isp / tsp input domain
InitState ==
  InitWith({Ctx(a, ref, BgIsp(TRUE, 3)) : a \in BOOLEAN, ref \in {0, 128}})

NextState ==
  \/ ParseBackground
  \/ EndOfList(MaxStateParams)
  \/ UserTileClip(MaxStateParams)
  \/ ObjListSet(MaxStateParams)
  \/ PolyParam(StatePolys, MaxStateParams)
  \/ VertParam(GeomVerts, MaxStateParams)
  \/ After

SpecState == InitState /\ [][NextState]_vars

\* the same program on streams of sprites
NextQuads ==
  \/ ParseBackground
  \/ EndOfList(MaxQuadParams)
  \/ UserTileClip(MaxQuadParams)
  \/ ObjListSet(MaxQuadParams)
  \/ PolyParam(QuadPolys, MaxQuadParams)
  \/ VertParam(QuadVerts, MaxQuadParams)
  \/ After

SpecQuads == Init /\ [][NextQuads]_vars

\* a textured opaque sprite and untextured sprites for the per-triangle lists
ScenePolys ==
  {Poly(TA_LIST_OPAQUE, "SPRITE", 5, 16, TRUE, Isp(FALSE, 7, 0), Tsp(4, 5))}
  \cup {Poly(lt, "SPRITE", 5, 15, FALSE, Isp(FALSE, 7, 0), Tsp(4, 5)) :
          lt \in {TA_LIST_TRANSLUCENT, TA_LIST_PUNCH_THROUGH}}

SceneVerts ==
  {Vert(TA_LIST_OPAQUE, TRUE, q) :
     q \in {QuadFlat, QuadSteep, QuadPoint, QuadEdge}}

\* the same program on streams of whole sprites, degenerate ones among them
NextScenes ==
  \/ ParseBackground
  \/ EndOfList(MaxSceneParams)
  \/ PolyParam(ScenePolys, MaxSceneParams)
  \/ VertParam(SceneVerts, MaxSceneParams)
  \/ After

SpecScenes == Init /\ [][NextScenes]_vars

\* plain polygons with and without a texture, in the three drawn lists
TexturePolys ==
  {p \in PolysOver({Isp(FALSE, 7, 0)}, {Tsp(4, 5)}) : p.poly_type = 0}

\* tr.c:119-131: the owner of the texture cache marks the entry dirty, as it
\* does when the guest writes the texture's memory
MarkDirty ==
  /\ pc \in {"reset", "walk"}
  /\ ~cache.dirty
  /\ cache' = [cache EXCEPT !.dirty = TRUE]
  /\ UNCHANGED <<pc, ctx, tr, rc, r, mem, hist>>

InitTexture == InitWith({Ctx(FALSE, 0, BgIsp(tex, 7)) : tex \in BOOLEAN})

\* the same program, the texture cache entry being dirtied between parameters
NextTexture ==
  \/ ParseBackground
  \/ MarkDirty
  \/ PolyParam(TexturePolys, MaxTextureParams)

SpecTexture == InitTexture /\ [][NextTexture]_vars


-----------------------------------------------------------------------------
\* Properties

\* the conversion ran to completion: indices generated, no fatal
Converted == pc \in {"done", "rendered"}

\* the entries of a list, in list order
Entries(lists, l) == SubSeq(lists[l].surfs, 1, lists[l].num_surfs)

EntrySet(lists, l) == {lists[l].surfs[k] : k \in 1 .. lists[l].num_surfs}

\* the strips committed to the two per-triangle lists
SplitCommits ==
  {k \in 1 .. Len(hist.commits) :
     hist.commits[k].list \in {TA_LIST_TRANSLUCENT, TA_LIST_PUNCH_THROUGH}}

\* C1: the surface, vertex and index counters of the render context never
\* exceed the capacities of their arrays; a step that would exceed one ends
\* fatally and leaves the counter alone.
C1_CountersWithinCapacity ==
  /\ rc.num_surfs <= SurfCap
  /\ rc.num_verts <= VertCap
  /\ rc.num_indices <= IndexCap


RECURSIVE SumVerts(_, _)
\* the vertex counts of the surfaces a sequence of entries references, summed
SumVerts(surfs, entries) ==
  IF entries = <<>> THEN 0
  ELSE At(surfs, Head(entries)).num_verts + SumVerts(surfs, Tail(entries))

\* C2: after a conversion, in every list each surface a list entry references
\* has a vertex count that is a multiple of 3, and the counts of the list's
\* entries add up to the number of indices emitted for that list.
C2_TrianglesPerList ==
  Converted =>
    \A l \in Lists :
      /\ \A e \in EntrySet(rc.lists, l) : At(rc.surfs, e).num_verts % 3 = 0
      /\ SumVerts(rc.surfs, Entries(rc.lists, l)) = hist.emitted[l]

\* a run of several surfaces was merged behind an earlier run of the list
C2_Witness ==
  /\ Converted
  /\ \E l \in Lists :
       /\ rc.lists[l].num_surfs >= 2
       /\ rc.lists[l].num_surfs < hist.premerge.lists[l].num_surfs
       /\ hist.emitted[l] >= 12

\* C3: after a conversion every generated index names a vertex that was
\* written: indices[0 .. num_indices-1] all lie in [0, num_verts).
C3_IndicesInRange ==
  Converted =>
    /\ Len(rc.indices) >= rc.num_indices
    /\ \A k \in 1 .. rc.num_indices :
         rc.indices[k] \in 0 .. (rc.num_verts - 1)

\* a split strip was reordered by the sort and its triangles were emitted
C3_Witness ==
  /\ Converted
  /\ ctx.autosort
  /\ hist.presort[TA_LIST_TRANSLUCENT] # hist.premerge.lists[TA_LIST_TRANSLUCENT]
  /\ hist.emitted[TA_LIST_TRANSLUCENT] >= 6
  /\ \E k \in 1 .. rc.num_indices : rc.indices[k] = rc.num_verts - 1

\* the vertex range [first_vert, first_vert + num_verts) of two surfaces meet
Overlap(a, b) ==
  /\ a.num_verts > 0
  /\ b.num_verts > 0
  /\ a.first_vert < b.first_vert + b.num_verts
  /\ b.first_vert < a.first_vert + a.num_verts

\* surfaces s and t are triangles split from one strip of a per-triangle list
SameSplitStrip(s, t) ==
  \E k \in SplitCommits :
    LET c == hist.commits[k]
        tris == c.surf .. (c.surf + c.len - 3)
    IN s \in tris /\ t \in tris

\* C4: before index generation every committed surface references a
\* contiguous vertex range inside [0, num_verts), and the ranges of two
\* distinct committed surfaces overlap only when both are per-triangle
\* surfaces split from the same strip of a TRANSLUCENT or PUNCH_THROUGH list.
C4_VertexRanges ==
  pc \in {"walk", "sort", "index"} =>
    /\ \A s \in 0 .. (rc.num_surfs - 1) :
         /\ At(rc.surfs, s).first_vert >= 0
         /\ At(rc.surfs, s).num_verts >= 0
         /\ At(rc.surfs, s).first_vert + At(rc.surfs, s).num_verts
              <= rc.num_verts
    /\ \A s, t \in 0 .. (rc.num_surfs - 1) :
         (s # t /\ Overlap(At(rc.surfs, s), At(rc.surfs, t)))
           => SameSplitStrip(s, t)

\* a split strip whose triangles share vertices, next to an unsplit surface
C4_Witness ==
  /\ pc = "index"
  /\ \E s, t \in 0 .. (rc.num_surfs - 1) :
       /\ s # t
       /\ Overlap(At(rc.surfs, s), At(rc.surfs, t))
       /\ SameSplitStrip(s, t)
  /\ rc.lists[TA_LIST_OPAQUE].num_surfs >= 2


RECURSIVE RunHeads(_, _, _)
\* the entries that start a maximal run of equal params, from position k on
RunHeads(surfs, entries, k) ==
  IF k > Len(entries) THEN <<>>
  ELSE (IF k = 1 \/ At(surfs, entries[k]).params
                      # At(surfs, entries[k - 1]).params
        THEN <<entries[k]>> ELSE <<>>)
       \o RunHeads(surfs, entries, k + 1)

\* C5: after index generation no two adjacent entries of a list reference
\* surfaces with equal params, and the entries that remain are the first
\* surfaces of the maximal runs of equal params, in pre-merge order.
C5_MergedRuns ==
  Converted =>
    \A l \in Lists :
      LET entries == Entries(rc.lists, l) IN
      /\ entries = RunHeads(hist.premerge.surfs,
                            Entries(hist.premerge.lists, l), 1)
      /\ \A k \in 1 .. (Len(entries) - 1) :
           At(rc.surfs, entries[k]).params
             # At(rc.surfs, entries[k + 1]).params

\* a run was merged and the head of a later run moved down into the gap
C5_Witness ==
  /\ Converted
  /\ \E l \in Lists :
       /\ rc.lists[l].num_surfs >= 2
       /\ \E k \in 1 .. rc.lists[l].num_surfs :
            rc.lists[l].surfs[k] # hist.premerge.lists[l].surfs[k]

RECURSIVE WoundTris(_, _)
\* the index triples of a surface's triangles j, j+1, ... by strip parity
WoundTris(surf, j) ==
  IF j >= surf.num_verts - 2 THEN <<>>
  ELSE LET v == surf.first_vert + j
           k == surf.strip_offset + j
       IN (IF k % 2 = 1 THEN <<v, v + 1, v + 2>> ELSE <<v, v + 2, v + 1>>)
          \o WoundTris(surf, j + 1)

RECURSIVE WoundEntries(_, _)
WoundEntries(surfs, entries) ==
  IF entries = <<>> THEN <<>>
  ELSE WoundTris(At(surfs, Head(entries)), 0)
       \o WoundEntries(surfs, Tail(entries))

RECURSIVE WoundLists(_)
\* the triangles of lists l, l+1, ... as they stood before merging
WoundLists(l) ==
  IF l >= TA_NUM_LISTS THEN <<>>
  ELSE WoundEntries(hist.premerge.surfs, Entries(hist.premerge.lists, l))
       \o WoundLists(l + 1)

\* C6: triangle j of a surface s is emitted with v = s.first_vert + j and
\* k = s.strip_offset + j as (v, v+1, v+2) when k is odd and as (v, v+2, v+1)
\* when k is even; a per-triangle surface carries as strip_offset the
\* triangle's position in its original strip, so a split strip winds as the
\* unsplit strip would.
C6_Winding ==
  Converted =>
    /\ SubSeq(rc.indices, 1, rc.num_indices) = WoundLists(0)
    /\ \A c \in SplitCommits :
         \A i \in 0 .. (hist.commits[c].len - 3) :
           LET surf == At(hist.premerge.surfs, hist.commits[c].surf + i) IN
           /\ surf.strip_offset = i
           /\ surf.first_vert = hist.commits[c].base + i
           /\ surf.num_verts = 3

\* an odd triangle of a split strip and an unsplit strip were both emitted
C6_Witness ==
  /\ Converted
  /\ \E c \in SplitCommits : hist.commits[c].len >= 4
  /\ hist.emitted[TA_LIST_OPAQUE] >= 12
  /\ hist.emitted[TA_LIST_TRANSLUCENT] + hist.emitted[TA_LIST_PUNCH_THROUGH] >= 6

\* the smallest z of the three vertices a per-triangle surface references
TriMinZ(s) ==
  LET zs == {At(rc.verts, At(rc.surfs, s).first_vert + i) : i \in 0 .. 2}
  IN CHOOSE z \in zs : \A y \in zs : z <= y

\* the position of surface s among the entries
PosIn(entries, s) == CHOOSE k \in 1 .. Len(entries) : entries[k] = s

\* C7: with autosort, after the sort the TRANSLUCENT and PUNCH_THROUGH lists
\* are each a permutation of their committed entries, ascending in minz, and
\* entries of equal minz keep their commit order.
C7_StableSort ==
  (pc = "index" /\ ctx.autosort) =>
    \A l \in {TA_LIST_TRANSLUCENT, TA_LIST_PUNCH_THROUGH} :
      LET sorted == Entries(rc.lists, l)
          committed == Entries(hist.presort, l)
      IN /\ Len(sorted) = Len(committed)
         /\ EntrySet(rc.lists, l) = EntrySet(hist.presort, l)
         /\ \A i, j \in 1 .. Len(sorted) :
              i < j =>
                /\ TriMinZ(sorted[i]) <= TriMinZ(sorted[j])
                /\ TriMinZ(sorted[i]) = TriMinZ(sorted[j])
                     => PosIn(committed, sorted[i]) < PosIn(committed, sorted[j])

\* the sort moved entries and had ties to keep in order
C7_Witness ==
  /\ pc = "index"
  /\ ctx.autosort
  /\ \E l \in {TA_LIST_TRANSLUCENT, TA_LIST_PUNCH_THROUGH} :
       /\ Entries(rc.lists, l) # Entries(hist.presort, l)
       /\ \E i, j \in 1 .. rc.lists[l].num_surfs :
            /\ i < j
            /\ TriMinZ(rc.lists[l].surfs[i]) = TriMinZ(rc.lists[l].surfs[j])


\* the params of the surface the polygon handler has just opened
OpenedParams == At(rc.surfs, rc.num_surfs).params

\* C8: every surface the polygon handler opens while the current list is
\* PUNCH_THROUGH has alpha_test set, alpha_ref equal to the context's
\* alpha_ref, and depth_func GEQUAL, whatever the polygon's
\* depth_compare_mode and whatever autosort is.
C8_PunchThroughState ==
  (pc = "walk" /\ hist.opened.valid
     /\ hist.opened.list_type = TA_LIST_PUNCH_THROUGH) =>
    /\ OpenedParams.alpha_test
    /\ OpenedParams.alpha_ref = ctx.alpha_ref
    /\ OpenedParams.depth_func = "DEPTH_GEQUAL"

\* C9: a surface opened in a list other than TRANSLUCENT and
\* TRANSLUCENT_MODVOL, and the background surface, have src_blend and
\* dst_blend NONE; a surface opened in TRANSLUCENT or TRANSLUCENT_MODVOL
\* keeps the blend factors its parameter translates to and has depth_func
\* LEQUAL under autosort and the translated depth function otherwise.
C9_BlendAndDepth ==
  /\ (pc # "reset" /\ rc.num_surfs >= 1) =>
       /\ At(rc.surfs, 0).params.src_blend = "BLEND_NONE"
       /\ At(rc.surfs, 0).params.dst_blend = "BLEND_NONE"
  /\ (pc = "walk" /\ hist.opened.valid) =>
       IF hist.opened.list_type \in
            {TA_LIST_TRANSLUCENT, TA_LIST_TRANSLUCENT_MODVOL}
       THEN /\ OpenedParams.src_blend =
                 translate_src_blend_func(hist.opened.param.tsp.src_alpha_instr)
            /\ OpenedParams.dst_blend =
                 translate_dst_blend_func(hist.opened.param.tsp.dst_alpha_instr)
            /\ OpenedParams.depth_func =
                 IF ctx.autosort THEN "DEPTH_LEQUAL"
                 ELSE translate_depth_func(
                        hist.opened.param.isp.depth_compare_mode)
       ELSE /\ OpenedParams.src_blend = "BLEND_NONE"
            /\ OpenedParams.dst_blend = "BLEND_NONE"

\* a surface opened in the TRANSLUCENT_MODVOL list from a parameter whose
\* blend factors and depth function are not the overriding values
C9_Witness ==
  /\ pc = "walk"
  /\ hist.opened.valid
  /\ hist.opened.list_type = TA_LIST_TRANSLUCENT_MODVOL
  /\ ~ctx.autosort
  /\ OpenedParams.src_blend = "BLEND_SRC_ALPHA"
  /\ OpenedParams.depth_func = "DEPTH_GREATER"

\* the surf fields of the draw calls between the first and the last call
DrawnSurfs == [k \in 1 .. (Len(r.calls) - 2) |-> r.calls[k + 1].surf]

\* C10: a render makes exactly one begin call, first; then draw calls for
\* entries of OPAQUE, then PUNCH_THROUGH, then TRANSLUCENT, each in list
\* order; then exactly one end call, last, also when it stopped early; no
\* entry of a MODVOL list is drawn.
C10_RenderOrder ==
  pc = "rendered" =>
    LET all == Entries(rc.lists, TA_LIST_OPAQUE)
               \o Entries(rc.lists, TA_LIST_PUNCH_THROUGH)
               \o Entries(rc.lists, TA_LIST_TRANSLUCENT)
        n == Len(r.calls)
    IN /\ n >= 2
       /\ r.calls[1].call = "begin"
       /\ r.calls[n].call = "end"
       /\ \A k \in 2 .. (n - 1) : r.calls[k].call = "draw"
       /\ Len(DrawnSurfs) <= Len(all)
       /\ DrawnSurfs = SubSeq(all, 1, Len(DrawnSurfs))
       /\ \A k \in 1 .. Len(DrawnSurfs) :
            /\ DrawnSurfs[k] \notin EntrySet(rc.lists, TA_LIST_OPAQUE_MODVOL)
            /\ DrawnSurfs[k] \notin
                 EntrySet(rc.lists, TA_LIST_TRANSLUCENT_MODVOL)

\* a render that drew from all three lists and stopped inside the last
C10_Witness ==
  /\ pc = "rendered"
  /\ mem.stopped
  /\ rc.lists[TA_LIST_PUNCH_THROUGH].num_surfs >= 1
  /\ rc.lists[TA_LIST_TRANSLUCENT].num_surfs >= 1
  /\ Len(r.calls) >= 5
  /\ \E k \in 1 .. Len(DrawnSurfs) :
       DrawnSurfs[k] \in EntrySet(rc.lists, TA_LIST_TRANSLUCENT)

\* the entries the three rendered lists hold, in rendering order
RenderedEntries ==
  Entries(rc.lists, TA_LIST_OPAQUE)
  \o Entries(rc.lists, TA_LIST_PUNCH_THROUGH)
  \o Entries(rc.lists, TA_LIST_TRANSLUCENT)

\* C11: when end_surf is an entry of one of the three rendered lists, its
\* draw is issued and is the last draw: no later entry of its list and no
\* entry of a later list is drawn; with end_surf = -1 every entry of the
\* three lists is drawn.
C11_StopAtEndSurf ==
  pc = "rendered" =>
    LET all == RenderedEntries IN
    /\ (\E k \in 1 .. Len(all) : all[k] = mem.end_surf) =>
         /\ Len(DrawnSurfs) >= 1
         /\ DrawnSurfs[Len(DrawnSurfs)] = mem.end_surf
         /\ DrawnSurfs = SubSeq(all, 1, PosIn(all, mem.end_surf))
    /\ mem.end_surf = -1 => DrawnSurfs = all

\* a render stopped at a punch-through entry that a non-empty list follows
C11_Witness ==
  /\ pc = "rendered"
  /\ mem.stopped
  /\ mem.end_surf \in EntrySet(rc.lists, TA_LIST_PUNCH_THROUGH)
  /\ rc.lists[TA_LIST_TRANSLUCENT].num_surfs >= 1
  /\ Len(DrawnSurfs) < Len(RenderedEntries)

\* the step reads one parameter of the stream
ReadsParam ==
  /\ pc = "walk"
  /\ pc' = "fatal" \/ rc'.num_params = rc.num_params + 1

\* C12: during the walk list_type changes only from NONE to the pcw's list
\* type, when a parameter arrives while no list is active, and to NONE at
\* END_OF_LIST, which also clears last_vertex and sets vert_type to NONE;
\* while a list is active a parameter naming another list leaves list_type
\* alone.
C12_ListTypeChanges ==
  [][ReadsParam =>
       LET pcw == hist'.last.pcw IN
       /\ tr'.list_type # tr.list_type =>
            \/ tr.list_type = TA_NUM_LISTS /\ tr'.list_type = pcw.list_type
            \/ pcw.para_type = "END_OF_LIST" /\ tr'.list_type = TA_NUM_LISTS
       /\ pcw.para_type = "END_OF_LIST" =>
            /\ tr'.list_type = TA_NUM_LISTS
            /\ tr'.last_vertex = NullVertex
            /\ tr'.vert_type = TA_NUM_VERTS
       /\ (tr.list_type # TA_NUM_LISTS /\ pcw.para_type # "END_OF_LIST") =>
            tr'.list_type = tr.list_type
       /\ (tr.list_type = TA_NUM_LISTS /\ pcw.para_type # "END_OF_LIST") =>
            tr'.list_type = pcw.list_type]_vars

\* a polygon parameter naming another list arrived while a list was active
C12_Witness ==
  /\ pc = "walk"
  /\ hist.last.pcw.para_type \in {"POLY_OR_VOL", "SPRITE"}
  /\ tr.list_type # TA_NUM_LISTS
  /\ hist.last.pcw.list_type # tr.list_type
  /\ rc.num_params >= 2

\* the parameter this step reads is one the walk cannot handle
ReadsFatalParam ==
  LET last == hist'.last IN
  \/ last.pcw.para_type = "OBJ_LIST_SET"
  \/ /\ last.pcw.para_type \in {"POLY_OR_VOL", "SPRITE"}
     /\ last.poly_type \notin {0, 1, 2, 5, 6}
  \/ /\ last.pcw.para_type = "VERTEX"
     /\ tr.vert_type \notin (0 .. 8) \cup {15, 16, 17}
  \/ /\ last.pcw.para_type = "VERTEX"
     /\ tr.vert_type \in {15, 16}
     /\ ~last.pcw.end_of_strip

\* C13: an OBJ_LIST_SET parameter, a polygon parameter of a poly type outside
\* {0,1,2,5,6}, a vertex parameter while vert_type is outside
\* {0..8,15,16,17}, and a sprite vertex without end-of-strip each end the
\* conversion fatally at that parameter: it is not recorded, no later
\* parameter is read, and neither the sort nor index generation runs.
C13_FatalParams ==
  [][/\ (ReadsParam /\ ReadsFatalParam) =>
          /\ pc' = "fatal"
          /\ rc'.num_params = rc.num_params
     /\ pc # "fatal"]_vars

\* the walk ended at a sprite vertex that lacked end-of-strip
C13_Witness ==
  /\ pc = "fatal"
  /\ hist.last.pcw.para_type = "VERTEX"
  /\ tr.vert_type \in {15, 16}
  /\ ~hist.last.pcw.end_of_strip
  /\ rc.num_params >= 1
  /\ hist.presort = <<>>
  /\ rc.num_indices = 0

\* the step calls tr_convert_texture: a textured background or polygon
ConvertsTexture ==
  \/ pc = "reset" /\ pc' = "walk" /\ ctx.bg_isp.texture
  \/ /\ ReadsParam
     /\ pc' = "walk"
     /\ hist'.last.pcw.para_type \in {"POLY_OR_VOL", "SPRITE"}
     /\ hist'.last.pcw.texture
     /\ hist'.last.poly_type \in {0, 1, 2, 5}

\* the handle the call returned, as stored in the surface's params
ReturnedHandle ==
  IF pc = "reset" THEN At(rc'.surfs, 0).params.texture
  ELSE At(rc'.surfs, rc'.num_surfs).params.texture

\* C14: a tr_convert_texture call on an entry with a live handle that is not
\* dirty returns that handle and creates and destroys nothing; a call on an
\* entry with a live dirty handle destroys that handle once and creates one
\* texture; after every call the entry is not dirty and holds the returned
\* handle, so at most one created and not destroyed texture exists.
C14_TextureCache ==
  /\ [][ConvertsTexture =>
          /\ (cache.handle # 0 /\ ~cache.dirty) =>
               /\ ReturnedHandle = cache.handle
               /\ r'.created = r.created
               /\ r'.destroyed = r.destroyed
               /\ r'.textures = r.textures
          /\ (cache.handle # 0 /\ cache.dirty) =>
               /\ r'.destroyed = r.destroyed + 1
               /\ r'.created = r.created + 1
               /\ cache.handle \notin r'.textures
          /\ ~cache'.dirty
          /\ ReturnedHandle # 0
          /\ cache'.handle = ReturnedHandle
          /\ r'.textures = {ReturnedHandle}]_vars
  /\ [](Cardinality(r.textures) <= 1)

\* a dirty texture was replaced, and the replacement was then reused
C14_Witness ==
  /\ r.destroyed >= 1
  /\ r.created = r.destroyed + 1
  /\ ~cache.dirty
  /\ r.textures = {cache.handle}
  /\ hist.last.pcw.texture
  /\ rc.num_params >= 3

\* the number of entries a list holds once strip k is committed: where the
\* next strip of the list starts, or the list's length if k is its last
EntriesAfter(k) ==
  LET c == hist.commits[k]
      later == {j \in (k + 1) .. Len(hist.commits) :
                  hist.commits[j].list = c.list}
  IN IF later = {} THEN rc.lists[c.list].num_surfs
     ELSE hist.commits[CHOOSE j \in later : \A i \in later : j <= i].at

\* C15: committing a strip of n >= 3 vertices to the TRANSLUCENT or
\* PUNCH_THROUGH list appends exactly n-2 surfaces to the list, the i-th
\* with strip_offset i, first_vert (strip base) + i, num_verts 3 and the
\* staged surface's params; so every surface of those lists has num_verts 3
\* before index generation and the sort's num_verts check never fails.
C15_PerTriangleSplit ==
  /\ [](pc \in {"walk", "sort"} =>
          \A k \in SplitCommits :
            LET c == hist.commits[k] IN
            c.len >= 3 =>
              /\ EntriesAfter(k) = c.at + (c.len - 2)
              /\ \A i \in 0 .. (c.len - 3) :
                   LET surf == At(rc.surfs, c.surf + i) IN
                   /\ At(rc.lists[c.list].surfs, c.at + i) = c.surf + i
                   /\ surf.strip_offset = i
                   /\ surf.first_vert = c.base + i
                   /\ surf.num_verts = 3
                   /\ surf.params = c.params)
  /\ [](pc \in {"walk", "sort", "index"} =>
          \A l \in {TA_LIST_TRANSLUCENT, TA_LIST_PUNCH_THROUGH} :
            \A e \in EntrySet(rc.lists, l) : At(rc.surfs, e).num_verts = 3)
  /\ [][pc = "sort" => pc' = "index"]_vars

\* a second strip of four vertices was split into the punch-through list, and
\* the lists are about to be sorted
C15_Witness ==
  /\ pc = "sort"
  /\ ctx.autosort
  /\ \E k \in SplitCommits :
       /\ hist.commits[k].list = TA_LIST_PUNCH_THROUGH
       /\ hist.commits[k].len = 4
       /\ hist.commits[k].at = 2

\* C16: the surface staged for a strip that begins right after a vertex with
\* end-of-strip, no polygon parameter or END_OF_LIST in between, has the
\* params of the previous strip's surface, those the governing polygon
\* parameter set, and a vertex range that starts at the current num_verts,
\* whatever kind of strip the previous one was.
C16_ContinuationInherits ==
  (pc = "walk" /\ hist.continued.valid) =>
    /\ hist.continued.surf.params = hist.governing
    /\ hist.continued.surf.first_vert = hist.continued.num_verts
    /\ hist.continued.surf.num_verts = 0

\* C17: a sprite vertex parameter whose three complete vertices are
\* degenerate (plane normal of zero length, or with zero z) emits no
\* surface: num_surfs, num_verts and every list's num_surfs and
\* num_orig_surfs are after the parameter what they were before it.
C17_DegenerateSprite ==
  [][(/\ ReadsParam
      /\ hist'.last.pcw.para_type = "VERTEX"
      /\ tr.vert_type \in {15, 16}
      /\ hist'.last.degenerate) =>
       /\ rc'.num_surfs = rc.num_surfs
       /\ rc'.num_verts = rc.num_verts
       /\ \A l \in Lists :
            /\ rc'.lists[l].num_surfs = rc.lists[l].num_surfs
            /\ rc'.lists[l].num_orig_surfs = rc.lists[l].num_orig_surfs]_vars

\* a degenerate sprite was read after a sprite that was committed
C17_Witness ==
  /\ pc = "walk"
  /\ hist.last.pcw.para_type = "VERTEX"
  /\ hist.last.degenerate
  /\ tr.vert_type \in {15, 16}
  /\ rc.num_surfs >= 2
  /\ rc.lists[TA_LIST_TRANSLUCENT].num_orig_surfs >= 1

\* C18: converting an empty parameter stream with an untextured background
\* yields exactly one surface, in the OPAQUE list, built from the four
\* background vertices; the four other lists are empty and the six indices
\* emitted are the triangles (0,2,1) and (1,2,3).
C18_EmptyStream ==
  (Converted /\ rc.num_params = 0 /\ ~ctx.bg_isp.texture) =>
    /\ rc.num_surfs = 1
    /\ Entries(rc.lists, TA_LIST_OPAQUE) = <<0>>
    /\ \A l \in Lists \ {TA_LIST_OPAQUE} :
         /\ rc.lists[l].num_surfs = 0
         /\ rc.lists[l].num_orig_surfs = 0
    /\ rc.lists[TA_LIST_OPAQUE].num_orig_surfs = 1
    /\ Len(hist.commits) = 1
    /\ hist.commits[1].list = TA_LIST_OPAQUE
    /\ hist.commits[1].surf = 0
    /\ hist.commits[1].base = 0
    /\ hist.commits[1].len = 4
    /\ rc.num_verts = 4
    /\ SubSeq(rc.verts, 1, 4) =
         <<ctx.bg_z[1], ctx.bg_z[2], ctx.bg_z[3],
           (ctx.bg_z[2] + (ctx.bg_z[2] - ctx.bg_z[1]))
             + (ctx.bg_z[3] - ctx.bg_z[1])>>
    /\ At(rc.surfs, 0).params.texture = 0
    /\ At(rc.surfs, 0).first_vert = 0
    /\ At(rc.surfs, 0).num_verts = 6
    /\ rc.num_indices = 6
    /\ SubSeq(rc.indices, 1, 6) = <<0, 2, 1, 1, 2, 3>>

\* an empty stream with an untextured background was converted
C18_Witness ==
  /\ Converted
  /\ rc.num_params = 0
  /\ ~ctx.bg_isp.texture
  /\ rc.num_indices > 0

\* the only strip of the stream is a TRANSLUCENT strip of four vertices whose
\* z values are (5,5,1,1), converted with autosort set
SteepStrip ==
  /\ Converted
  /\ ctx.autosort
  /\ Len(hist.commits) = 2
  /\ hist.commits[2].list = TA_LIST_TRANSLUCENT
  /\ hist.commits[2].len = 4
  /\ [i \in 1 .. 4 |-> At(rc.verts, hist.commits[2].base + i - 1)]
       = <<5, 5, 1, 1>>

\* least z of the three vertices of per-triangle surface s as committed
CommittedMinZ(s) ==
  LET zs == {At(rc.verts, At(hist.premerge.surfs, s).first_vert + i) :
               i \in 0 .. 2}
  IN CHOOSE z \in zs : \A y \in zs : z <= y

\* the three indices emitted for per-triangle surface s as committed
CommittedTri(s) ==
  LET surf == At(hist.premerge.surfs, s)
  IN TriIndices(surf.strip_offset, surf.first_vert)

\* the indices of the only TRANSLUCENT list entry
SteepIndices ==
  LET root == At(rc.surfs, rc.lists[TA_LIST_TRANSLUCENT].surfs[1])
  IN SubSeq(rc.indices, root.first_vert + 1,
            root.first_vert + root.num_verts)

\* C19 as stated: the two per-triangle surfaces of the (5,5,1,1) strip have
\* minz 5 and 1, the sort puts the second before the first, and the merged
\* surface emits its 6 indices in that reordered order.
C19_SteepStripReordered ==
  SteepStrip =>
    LET first == hist.commits[2].surf
        second == first + 1
    IN /\ Entries(hist.presort, TA_LIST_TRANSLUCENT) = <<first, second>>
       /\ CommittedMinZ(first) = 5
       /\ CommittedMinZ(second) = 1
       /\ Entries(hist.premerge.lists, TA_LIST_TRANSLUCENT) = <<second, first>>
       /\ rc.lists[TA_LIST_TRANSLUCENT].num_surfs = 1
       /\ Len(SteepIndices) = 6
       /\ SteepIndices = CommittedTri(second) \o CommittedTri(first)

\* C19 amended: the two per-triangle surfaces of the (5,5,1,1) strip cover
\* z (5,5,1) and (5,1,1), so both have minz 1 before the sort; the stable sort
\* leaves them in submission order, and the merged surface emits its 6
\* indices in submission order.
C19_SteepStripKeepsOrder ==
  SteepStrip =>
    LET first == hist.commits[2].surf
        second == first + 1
        base == hist.commits[2].base
    IN /\ Entries(hist.presort, TA_LIST_TRANSLUCENT) = <<first, second>>
       /\ At(hist.premerge.surfs, first).first_vert = base
       /\ At(hist.premerge.surfs, second).first_vert = base + 1
       /\ At(hist.premerge.surfs, first).num_verts = 3
       /\ At(hist.premerge.surfs, second).num_verts = 3
       /\ CommittedMinZ(first) = 1
       /\ CommittedMinZ(second) = 1
       /\ mem.sort_minz[first] = 1
       /\ mem.sort_minz[second] = 1
       /\ Entries(hist.premerge.lists, TA_LIST_TRANSLUCENT) = <<first, second>>
       /\ rc.lists[TA_LIST_TRANSLUCENT].num_surfs = 1
       /\ rc.lists[TA_LIST_TRANSLUCENT].surfs[1] = first
       /\ Len(SteepIndices) = 6
       /\ SteepIndices = CommittedTri(first) \o CommittedTri(second)
       /\ SteepIndices =
            <<base, base + 2, base + 1, base + 1, base + 2, base + 3>>

\* the (5,5,1,1) strip was converted with autosort set
C19_Witness ==
  /\ SteepStrip
  /\ rc.lists[TA_LIST_TRANSLUCENT].num_orig_surfs = 1
  /\ rc.num_indices = 12

\* triangles of a strip of len vertices
StripTris(len) == IF len > 2 THEN len - 2 ELSE 0

\* triangles of the committed strips k .. Len(hist.commits)
RECURSIVE CommittedTris(_)
CommittedTris(k) ==
  IF k > Len(hist.commits) THEN 0
  ELSE StripTris(hist.commits[k].len) + CommittedTris(k + 1)

\* triangle counts of the runs of equal params among entries k .. Len(entries),
\* acc being the count of the run that entry k - 1 belongs to
RECURSIVE RunTris(_, _, _, _)
RunTris(surfs, entries, k, acc) ==
  IF k > Len(entries) THEN (IF k = 1 THEN <<>> ELSE <<acc>>)
  ELSE
    LET tris == StripTris(At(surfs, entries[k]).num_verts) IN
    IF k = 1 THEN RunTris(surfs, entries, 2, tris)
    ELSE IF At(surfs, entries[k]).params = At(surfs, entries[k - 1]).params
    THEN RunTris(surfs, entries, k + 1, acc + tris)
    ELSE <<acc>> \o RunTris(surfs, entries, k + 1, tris)

\* commits k and k + 1 are two OPAQUE strips with identical params that no
\* neighbouring OPAQUE surface shares
BackToBack(k) ==
  LET a == hist.commits[k]
      b == hist.commits[k + 1]
      entries == Entries(hist.premerge.lists, TA_LIST_OPAQUE)
      params(p) == At(hist.premerge.surfs, entries[p]).params
  IN /\ a.list = TA_LIST_OPAQUE
     /\ b.list = TA_LIST_OPAQUE
     /\ a.params = b.params
     /\ a.at >= 1 => params(a.at) # a.params
     /\ b.at + 2 <= Len(entries) => params(b.at + 2) # a.params

\* C20: merging never loses or duplicates triangles: after conversion
\* num_indices is 3 times the sum over all committed strips, the background
\* quad included, of max(0, strip length - 2), and every list entry holds 3
\* indices per triangle of the run it replaces; two back-to-back OPAQUE strips
\* with identical params are two surfaces before the merge and one list entry
\* after it, whose num_verts is 3 times the sum of both strips' triangles.
C20_MergeKeepsTriangles ==
  Converted =>
    /\ rc.num_indices = 3 * CommittedTris(1)
    /\ \A l \in Lists :
         LET runs == RunTris(hist.premerge.surfs,
                             Entries(hist.premerge.lists, l), 1, 0)
             entries == Entries(rc.lists, l)
         IN /\ Len(entries) = Len(runs)
            /\ \A k \in 1 .. Len(entries) :
                 At(rc.surfs, entries[k]).num_verts = 3 * runs[k]
    /\ \A k \in 1 .. (Len(hist.commits) - 1) :
         BackToBack(k) =>
           LET a == hist.commits[k]
               b == hist.commits[k + 1]
               before == Entries(hist.premerge.lists, TA_LIST_OPAQUE)
               after == Entries(rc.lists, TA_LIST_OPAQUE)
           IN /\ before[a.at + 1] = a.surf
              /\ before[b.at + 1] = b.surf
              /\ a.surf # b.surf
              /\ b.at = a.at + 1
              /\ Cardinality({p \in 1 .. Len(after) :
                                after[p] \in {a.surf, b.surf}}) = 1
              /\ \E p \in 1 .. Len(after) :
                   /\ after[p] = a.surf
                   /\ At(rc.surfs, a.surf).num_verts =
                        3 * (StripTris(a.len) + StripTris(b.len))

\* two back-to-back OPAQUE strips with identical params, which the background
\* does not share, were merged into one entry of 12 indices
C20_Witness ==
  /\ Converted
  /\ \E k \in 1 .. (Len(hist.commits) - 1) :
       /\ BackToBack(k)
       /\ hist.commits[k].params # hist.commits[1].params
       /\ At(rc.surfs, hist.commits[k].surf).num_verts = 12
  /\ rc.lists[TA_LIST_OPAQUE].num_surfs = 2
  /\ hist.premerge.lists[TA_LIST_OPAQUE].num_surfs = 3

\* vertices reserved by the committed strips k .. Len(hist.commits)
RECURSIVE CommittedVerts(_)
CommittedVerts(k) ==
  IF k > Len(hist.commits) THEN 0
  ELSE hist.commits[k].len + CommittedVerts(k + 1)

\* C21: tr_commit_surf advances num_verts by exactly the number of vertices
\* reserved in the staged strip, for every list type and every strip length
\* of at least 1, so num_verts is the count of vertices written by committed
\* strips and every strip starts where the previous one ended; each commit
\* increments its list's num_orig_surfs by exactly 1.
C21_CommitAdvancesByStripLength ==
  pc # "fatal" =>
    /\ rc.num_verts = CommittedVerts(1)
    /\ \A k \in 1 .. Len(hist.commits) :
         /\ hist.commits[k].len >= 1
         /\ hist.commits[k].base = CommittedVerts(1) - CommittedVerts(k)
    /\ \A l \in Lists :
         rc.lists[l].num_orig_surfs =
           Cardinality({k \in 1 .. Len(hist.commits) :
                          hist.commits[k].list = l})

\* the last vertex read belongs to a strip that has not seen end-of-strip
OpenStrip ==
  /\ pc = "walk"
  /\ ~tr.last_vertex.null
  /\ ~tr.last_vertex.end_of_strip

\* the step reads a vertex without end-of-strip and the walk goes on
ReadsOpenVertex ==
  /\ ReadsParam
  /\ pc' = "walk"
  /\ hist'.last.pcw.para_type = "VERTEX"
  /\ ~hist'.last.pcw.end_of_strip

\* the step ends an open strip by a polygon parameter, END_OF_LIST or the end
\* of the stream
DropsOpenStrip ==
  /\ OpenStrip
  /\ \/ pc' = "sort"
     \/ /\ ReadsParam
        /\ pc' = "walk"
        /\ hist'.last.pcw.para_type \in {"POLY_OR_VOL", "SPRITE", "END_OF_LIST"}

\* C22: a strip whose vertices never carry end-of-strip before the next
\* polygon parameter, END_OF_LIST or end of stream is ignored: neither its
\* vertices nor the parameter that ends it add a surface to any list or
\* change num_surfs or num_verts, no list entry ever names the staged
\* surface, and the surface the next polygon parameter stages starts at the
\* ignored strip's first vertex slot with no vertices.
C22_OpenStripIgnored ==
  /\ [](\A l \in Lists : \A e \in EntrySet(rc.lists, l) : e < rc.num_surfs)
  /\ [][(ReadsOpenVertex \/ DropsOpenStrip) =>
          /\ rc'.num_surfs = rc.num_surfs
          /\ rc'.num_verts = rc.num_verts
          /\ rc'.lists = rc.lists
          /\ hist'.commits = hist.commits
          /\ (DropsOpenStrip /\ hist'.opened.valid) =>
               /\ At(rc.surfs, rc.num_surfs).num_verts >= 1
               /\ At(rc'.surfs, rc'.num_surfs).num_verts = 0
               /\ At(rc'.surfs, rc'.num_surfs).first_vert =
                    At(rc.surfs, rc.num_surfs).first_vert
               /\ At(rc'.surfs, rc'.num_surfs).first_vert = rc.num_verts]_vars

\* the stream was a plain polygon parameter, a vertex without end-of-strip and
\* a polygon parameter, which staged a fresh surface over the vertex slot the
\* ignored strip wrote beyond num_verts
C22_Witness ==
  /\ pc = "walk"
  /\ hist.last.pcw.para_type = "POLY_OR_VOL"
  /\ hist.opened.valid
  /\ rc.num_params = 3
  /\ rc.params[1].vert_type \in 0 .. 8
  /\ rc.params[2].vert_type \in 0 .. 8
  /\ rc.params[1].last_vert = rc.num_verts - 1
  /\ rc.params[2].last_vert = rc.num_verts - 1
  /\ At(rc.surfs, rc.num_surfs).num_verts = 0
  /\ At(rc.surfs, rc.num_surfs).first_vert = rc.num_verts
  /\ Len(rc.verts) > rc.num_verts

\* C23: the background is parsed exactly once, before any stream parameter:
\* the first commit is the background quad as surface 0 at the head of the
\* OPAQUE list, made while no parameter has been read; after every completed
\* conversion surface 0 still carries the background's params, the OPAQUE
\* list is non-empty with surface 0 as its first entry, whose indices start
\* with the background's two triangles, and the first draw of every render is
\* surface 0.
C23_BackgroundFirst ==
  /\ pc = "reset" => (hist.commits = <<>> /\ rc.num_params = 0)
  /\ pc \notin {"reset", "fatal"} =>
       /\ Len(hist.commits) >= 1
       /\ hist.commits[1].list = TA_LIST_OPAQUE
       /\ hist.commits[1].surf = 0
       /\ hist.commits[1].base = 0
       /\ hist.commits[1].len = 4
       /\ hist.commits[1].at = 0
       /\ \A k \in 2 .. Len(hist.commits) :
            /\ hist.commits[k].surf >= 1
            /\ hist.commits[k].base >= 4
       /\ \A k \in 1 .. rc.num_params : rc.params[k].last_surf >= 0
  /\ Converted =>
       /\ At(rc.surfs, 0).params = hist.commits[1].params
       /\ rc.lists[TA_LIST_OPAQUE].num_surfs >= 1
       /\ rc.lists[TA_LIST_OPAQUE].surfs[1] = 0
       /\ At(rc.surfs, 0).first_vert = 0
       /\ At(rc.surfs, 0).num_verts >= 6
       /\ SubSeq(rc.indices, 1, 6) = <<0, 2, 1, 1, 2, 3>>
  /\ pc = "rendered" =>
       /\ Len(DrawnSurfs) >= 1
       /\ DrawnSurfs[1] = 0

\* a stream that committed further surfaces, the punch-through list included,
\* was converted and rendered
C23_Witness ==
  /\ pc = "rendered"
  /\ rc.num_params >= 2
  /\ rc.lists[TA_LIST_PUNCH_THROUGH].num_surfs >= 1
  /\ Len(DrawnSurfs) >= 2

\* the step runs tr_commit_surf
Commits == hist'.commits # hist.commits

\* C24: tr_commit_surf only runs while list_type is one of the five lists and
\* a surface has been staged since the last END_OF_LIST, by the background
\* parser for the background's own commit and by a polygon parameter for
\* every commit of the walk; a vertex parameter read while no list is active
\* ends in the fatal state and commits nothing.
C24_CommitNeedsActiveList ==
  [][/\ (pc = "reset" /\ Commits) =>
          /\ hist'.commits = <<hist'.commits[1]>>
          /\ hist'.commits[1].list = TA_LIST_OPAQUE
     /\ (pc = "walk" /\ Commits) =>
          /\ tr.list_type \in Lists
          /\ tr'.list_type = tr.list_type
          /\ tr.vert_type \in (0 .. 8) \cup {15, 16}
          /\ hist.staged
          /\ hist'.last.pcw.para_type = "VERTEX"
          /\ hist'.last.pcw.end_of_strip
          /\ Len(hist'.commits) = Len(hist.commits) + 1
          /\ hist'.commits[Len(hist'.commits)].list = tr.list_type
          /\ SubSeq(hist'.commits, 1, Len(hist.commits)) = hist.commits
     /\ pc \notin {"reset", "walk"} => ~Commits
     /\ (/\ ReadsParam
         /\ hist'.last.pcw.para_type = "VERTEX"
         /\ tr.list_type = TA_NUM_LISTS) =>
          /\ pc' = "fatal"
          /\ ~Commits
          /\ rc'.num_surfs = rc.num_surfs
          /\ rc'.num_verts = rc.num_verts
          /\ rc'.lists = rc.lists]_vars

\* after a committed strip and an END_OF_LIST, a vertex parameter was read
\* with no list active
C24_Witness ==
  /\ pc = "fatal"
  /\ hist.last.pcw.para_type = "VERTEX"
  /\ tr.vert_type = TA_NUM_VERTS
  /\ ~hist.staged
  /\ Len(hist.commits) >= 2
  /\ rc.num_params >= 3
  /\ rc.params[rc.num_params].list_type = TA_NUM_LISTS

\* the surfaces a commit put into its list, in the order it appended them
CommitSurfs(c) ==
  LET n == IF c.list \in {TA_LIST_TRANSLUCENT, TA_LIST_PUNCH_THROUGH}
           THEN StripTris(c.len) ELSE 1
  IN [i \in 1 .. n |-> c.surf + i - 1]

\* the surfaces committed to list l by commits k .. Len(hist.commits), in
\* commit order
RECURSIVE CommitOrder(_, _)
CommitOrder(l, k) ==
  IF k > Len(hist.commits) THEN <<>>
  ELSE (IF hist.commits[k].list = l THEN CommitSurfs(hist.commits[k])
        ELSE <<>>) \o CommitOrder(l, k + 1)

\* the lists the sort may reorder in this context
SortedLists ==
  IF ctx.autosort THEN {TA_LIST_TRANSLUCENT, TA_LIST_PUNCH_THROUGH} ELSE {}

\* C25: sorting touches only the TRANSLUCENT and PUNCH_THROUGH lists and only
\* when ctx.autosort is set: every other list, and every list when autosort
\* is clear, reaches index generation with its entries in commit order, and
\* the step from the walk's end to index generation changes no surface, no
\* vertex, no counter and no list's length.
C25_SortTouchesOnlySplitLists ==
  /\ [](pc = "index" =>
          \A l \in Lists \ SortedLists :
            Entries(rc.lists, l) = CommitOrder(l, 1))
  /\ [][pc = "sort" =>
          /\ rc'.surfs = rc.surfs
          /\ rc'.verts = rc.verts
          /\ rc'.num_surfs = rc.num_surfs
          /\ rc'.num_verts = rc.num_verts
          /\ rc'.indices = rc.indices
          /\ rc'.num_indices = rc.num_indices
          /\ rc'.params = rc.params
          /\ \A l \in Lists :
               /\ rc'.lists[l].num_surfs = rc.lists[l].num_surfs
               /\ rc'.lists[l].num_orig_surfs = rc.lists[l].num_orig_surfs
          /\ \A l \in Lists \ SortedLists : rc'.lists[l] = rc.lists[l]]_vars

\* with autosort clear a split list reached index generation with a surface
\* of greater minz ahead of one of smaller minz, next to an OPAQUE list of
\* several entries
C25_Witness ==
  /\ pc = "index"
  /\ ~ctx.autosort
  /\ rc.lists[TA_LIST_OPAQUE].num_surfs >= 2
  /\ \E l \in {TA_LIST_TRANSLUCENT, TA_LIST_PUNCH_THROUGH} :
       \E i, j \in 1 .. rc.lists[l].num_surfs :
         /\ i < j
         /\ TriMinZ(rc.lists[l].surfs[i]) > TriMinZ(rc.lists[l].surfs[j])

\* C26: exactly one params entry is recorded per parsed command, with
\* strictly increasing offsets, and for every entry p with p.last_surf >= 0
\* tr_render_context_until(rc, p.last_surf) on the finished context stops
\* early at that surface: p.last_surf is still an entry of a rendered list
\* after sort and merge, it is the last surface drawn, and no surface
\* committed after it is drawn.
C26_TrailStopsRender ==
  /\ pc # "fatal" =>
       /\ Len(rc.params) = rc.num_params
       /\ \A k \in 1 .. (rc.num_params - 1) :
            rc.params[k].offset < rc.params[k + 1].offset
       /\ \A k \in 1 .. rc.num_params : rc.params[k].offset < mem.data
  /\ (/\ pc = "rendered"
      /\ \E k \in 1 .. rc.num_params : rc.params[k].last_surf = mem.end_surf) =>
       /\ \E k \in 1 .. Len(RenderedEntries) :
            RenderedEntries[k] = mem.end_surf
       /\ mem.stopped
       /\ Len(DrawnSurfs) >= 1
       /\ DrawnSurfs[Len(DrawnSurfs)] = mem.end_surf
       /\ \A k \in 1 .. Len(DrawnSurfs) : DrawnSurfs[k] <= mem.end_surf

====
